---- MODULE Spec2Model ----
(***************************************************************************)
(* GitShift: the account-identity reconciliation engine.                   *)
(*                                                                         *)
(* State: the accounts file (.vscode/github-accounts.json), the token      *)
(* vault (VS Code SecretStorage plus the global registry of usernames),    *)
(* the working directory's git identity (user.name / user.email), the git  *)
(* credential store file, the origin remote URL, and the position and      *)
(* locals of the running handleSwitchToAccount invocation.                 *)
(*                                                                         *)
(* Strings that the code takes apart (remote URLs) are sequences of atoms, *)
(* cut so that every pattern the code searches for ('git@github.com:',     *)
(* '@github.com/', 'github.com/', '.git', '/') is a sequence of atoms; the *)
(* string functions are computed on those sequences as JavaScript computes *)
(* them on characters.                                                     *)
(*                                                                         *)
(* Every await of handleSwitchToAccount is one step.  A call to a          *)
(* collaborator that can throw (secret storage, the accounts file, git)    *)
(* chooses nondeterministically between its outcomes.  The account handed  *)
(* to handleSwitchToAccount is a record of the accounts file as loaded by  *)
(* the caller (the quick pick of handleSwitchAccount, both auto-activate   *)
(* functions).                                                             *)
(***************************************************************************)
EXTENDS Integers, Sequences, FiniteSets, TLC

\* ------------------------------------------------------------------ bounds
MaxAccounts == 2
\* commands and auto-activations started in one behaviour
MaxOps == 1
\* token-vault operations (storeGitHubToken, deleteGitHubToken) in one behaviour
MaxVaultOps == 3
\* loadAccounts and saveAccounts calls in one behaviour
MaxFileOps == 3

\* handler invocations in flight in one behaviour
MaxTasks == 2

\* runs of autoImportGitHubAccounts in one workspace
MaxImportRuns == 2

\* ------------------------------------------------------------ data universe
NoToken == "none"
NoSession == [id |-> "", accessToken |-> NoToken, sessionId |-> ""]
NoRepoInfo == [owner |-> <<"?">>, repo |-> <<"?">>, ok |-> FALSE]

Usernames == {"a", "b"}
Tokens == {"ta", "tb"}

AccountUniverse ==
  { [label |-> "A", name |-> "A", email |-> "a@x.com", username |-> "a",
     accountId |-> "ida", sessionId |-> "s1", authenticated |-> auth] : auth \in BOOLEAN }
  \cup
  { [label |-> "B", name |-> "B", email |-> "b@x.com", username |-> "b",
     accountId |-> "", sessionId |-> "", authenticated |-> auth] : auth \in BOOLEAN }
  \cup
  { [label |-> "L", name |-> "L", email |-> "l@x.com", username |-> "",
     accountId |-> "", sessionId |-> "", authenticated |-> FALSE] }

NoAccount == [label |-> "", name |-> "", email |-> "", username |-> "",
              accountId |-> "", sessionId |-> "", authenticated |-> FALSE]

\* the external VS Code GitHub session, as vscode.authentication.getSession
\* returns it at the time of a call
Sessions == { NoSession,
              [id |-> "ida", accessToken |-> "ta", sessionId |-> "s1"],
              [id |-> "idx", accessToken |-> "tb", sessionId |-> "s2"] }

\* the answers of GET /user and GET /user/emails for a token: login, name
\* and email of the user object (name and email may be empty) and the list of
\* /user/emails (empty too when that call fails); NoProfile: GET /user fails
NoProfile == [login |-> "", name |-> "", email |-> "", emails |-> <<>>]

Profiles ==
  { NoProfile,
    [login |-> "a", name |-> "A", email |-> "a@x.com", emails |-> <<>>],
    [login |-> "a", name |-> "A", email |-> "a@x.com",
     emails |-> << [email |-> "a@x.com", primary |-> FALSE, verified |-> TRUE],
                   [email |-> "a2@x.com", primary |-> TRUE, verified |-> TRUE] >>],
    [login |-> "a", name |-> "", email |-> "",
     emails |-> << [email |-> "l@x.com", primary |-> TRUE, verified |-> FALSE] >>],
    [login |-> "a", name |-> "A", email |-> "", emails |-> <<>>],
    [login |-> "a", name |-> "A", email |-> "a@x.com",
     emails |-> << [email |-> "p@x.com", primary |-> TRUE, verified |-> FALSE],
                   [email |-> "v@x.com", primary |-> FALSE, verified |-> TRUE] >>],
    [login |-> "a", name |-> "A", email |-> "a@x.com",
     emails |-> << [email |-> "f@x.com", primary |-> FALSE, verified |-> FALSE],
                   [email |-> "p@x.com", primary |-> TRUE, verified |-> FALSE] >>],
    [login |-> "a", name |-> "A", email |-> "a@x.com",
     emails |-> << [email |-> "f@x.com", primary |-> FALSE, verified |-> FALSE] >>],
    [login |-> "b", name |-> "B", email |-> "b@x.com", emails |-> <<>>] }

NoProfiles == [t \in Tokens |-> NoProfile]

\* the answer of GET /repos/{owner}/{repo}
ApiResponses ==
  { [status |-> "neterr", permissions |-> "absent", ownerLogin |-> ""],
    [status |-> "notok", permissions |-> "absent", ownerLogin |-> ""],
    [status |-> "ok", permissions |-> "push", ownerLogin |-> "a"],
    [status |-> "ok", permissions |-> "none", ownerLogin |-> "a"],
    [status |-> "ok", permissions |-> "absent", ownerLogin |-> "a"],
    [status |-> "ok", permissions |-> "absent", ownerLogin |-> "b"] }

\* remote URLs of the working directory (<<>>: no origin remote)
RemoteUrls ==
  { <<>>,
    <<"git", "@", "github.com", ":", "o", "/", "r", ".git">>,
    <<"https://", "github.com", "/", "a", "/", "r", ".git">>,
    <<"https://", "b", ":", "tb", "@", "github.com", "/", "a", "/", "r", ".git">>,
    <<"https://", "gitlab.com", "/", "a", "/", "r", ".git">> }

\* ------------------------------------------------- JavaScript string functions
StartsWith(s, p) == Len(s) >= Len(p) /\ SubSeq(s, 1, Len(p)) = p

IndexOf(s, p) ==
  LET hits == { i \in 1..(Len(s) - Len(p) + 1) : SubSeq(s, i, i + Len(p) - 1) = p }
  IN IF hits = {} THEN 0 ELSE CHOOSE i \in hits : \A j \in hits : i <= j

Includes(s, p) == IndexOf(s, p) # 0

\* s.replace(p, ''): the first occurrence only
ReplaceFirst(s, p) ==
  LET i == IndexOf(s, p)
  IN IF i = 0 THEN s ELSE SubSeq(s, 1, i - 1) \o SubSeq(s, i + Len(p), Len(s))

\* s.split(p)[1] || '': the text between the first and the second occurrence
SplitSecond(s, p) ==
  LET i == IndexOf(s, p)
      rest == SubSeq(s, i + Len(p), Len(s))
      j == IndexOf(rest, p)
  IN IF i = 0 THEN <<>>
     ELSE IF j = 0 THEN rest ELSE SubSeq(rest, 1, j - 1)

\* s.split('/')
RECURSIVE SplitSlash(_)
SplitSlash(s) ==
  LET i == IndexOf(s, <<"/">>)
  IN IF i = 0 THEN <<s>>
     ELSE <<SubSeq(s, 1, i - 1)>> \o SplitSlash(SubSeq(s, i + 1, Len(s)))

\* str.includes(sub) for two atoms of the universe
SubstringPairs == { <<"a", "ta">>, <<"b", "tb">> }
Contains(str, sub) == str = sub \/ <<sub, str>> \in SubstringPairs

\* ---------------------------------------------------------- gitCredentials.ts
SshPrefix == <<"git", "@", "github.com", ":">>

parseGitHubUrl(url) ==
  LET sshParts == SplitSlash(ReplaceFirst(ReplaceFirst(url, SshPrefix), <<".git">>))
      httpsParts == SplitSlash(ReplaceFirst(SplitSecond(url, <<"github.com", "/">>), <<".git">>))
  IN IF StartsWith(url, SshPrefix) /\ Len(sshParts) = 2
       THEN [owner |-> sshParts[1], repo |-> sshParts[2], ok |-> TRUE]
     ELSE IF Includes(url, <<"github.com", "/">>) /\ Len(httpsParts) >= 2
       THEN [owner |-> httpsParts[1], repo |-> httpsParts[2], ok |-> TRUE]
     ELSE NoRepoInfo

\* the condition under which handleSwitchToAccount checks access and rewrites
\* the remote: remoteUrl && remoteUrl.includes('github.com') && parseGitHubUrl(remoteUrl)
HostMatchingRemote(url) ==
  url # <<>> /\ Includes(url, <<"github.com">>) /\ parseGitHubUrl(url).ok

\* cleanUrl without the username in the rebuilt URL
cleanUrlWithoutUsername(currentUrl, username) ==
  LET sshPath == ReplaceFirst(ReplaceFirst(currentUrl, SshPrefix), <<".git">>)
      plainPath == ReplaceFirst(SplitSecond(currentUrl, <<"github.com", "/">>), <<".git">>)
      build(repoPath) == <<"https://", "github.com", "/">> \o repoPath \o <<".git">>
  IN IF StartsWith(currentUrl, SshPrefix) THEN build(sshPath)
     ELSE IF Includes(currentUrl, <<"github.com", "/">>) /\ plainPath # <<>> THEN build(plainPath)
     ELSE <<>>

\* the clean URL computed by updateRemoteUrlWithToken; <<>> stands for the
\* paths that throw or return without a URL
cleanUrl(currentUrl, username) ==
  LET sshPath == ReplaceFirst(ReplaceFirst(currentUrl, SshPrefix), <<".git">>)
      credPath == ReplaceFirst(SplitSecond(currentUrl, <<"@", "github.com", "/">>), <<".git">>)
      plainPath == ReplaceFirst(SplitSecond(currentUrl, <<"github.com", "/">>), <<".git">>)
      build(repoPath) == <<"https://", username, "@", "github.com", "/">> \o repoPath \o <<".git">>
  IN IF StartsWith(currentUrl, SshPrefix) THEN build(sshPath)
     ELSE IF Includes(currentUrl, <<"github.com">>)
       THEN IF Includes(currentUrl, <<"@", "github.com", "/">>)
              THEN (IF credPath # <<>> THEN build(credPath) ELSE <<>>)
            ELSE IF Includes(currentUrl, <<"github.com", "/">>)
              THEN (IF plainPath # <<>> THEN build(plainPath) ELSE <<>>)
            ELSE <<>>
     ELSE <<>>

\* storeCredentialsInGitStore that pushes the new line without the filter
storeCredentialsAppended(lines, username, token) ==
  lines \o <<[user |-> username, token |-> token]>>

\* a line of ~/.git-credentials: https://<user>:<token>@github.com
\* lines.filter(line => !(line.includes('github.com') && line.includes(username)))
\* then push the new line
storeCredentialsInGitStore(lines, username, token) ==
  LET keep(l) == ~(Contains(l.user, username) \/ Contains(l.token, username))
  IN SelectSeq(lines, keep) \o <<[user |-> username, token |-> token]>>

\* ------------------------------------------------------------- githubAuth.ts
\* getGitHubSessionByAccountId that returns the current session of any account
getGitHubSessionOfAnyAccount(session, accountId) == session

\* lines 146-177: the current session if its account id is the requested one
getGitHubSessionByAccountId(session, accountId) ==
  IF session # NoSession /\ session.id = accountId THEN session ELSE NoSession

checkCollaboratorAccess(resp, username) ==
  IF resp.status # "ok" THEN FALSE
  ELSE IF resp.permissions # "absent" THEN resp.permissions = "push"
  ELSE resp.ownerLogin = username

\* secretStorage.get('github-token-' + username): undefined when the key was never stored
secretsGet(v, username) == IF username \in DOMAIN v THEN v[username] ELSE NoToken

\* registerToken that pushes the username without looking
registerTokenAlways(reg, username) == Append(reg, username)

registerToken(reg, username) ==
  IF \E i \in 1..Len(reg) : reg[i] = username THEN reg ELSE Append(reg, username)

\* accounts.findIndex(a => a.username === username), 0 for -1
findIndexByUsername(list, username) ==
  LET hits == { i \in 1..Len(list) : list[i].username = username }
  IN IF hits = {} THEN 0 ELSE CHOOSE i \in hits : \A j \in hits : i <= j

\* setAuthenticated that leaves the record as loaded
setAuthenticatedDropped(list, idx, value) == list

\* accounts[idx].authenticated = value (lines 1544 and 1574)
setAuthenticated(list, idx, value) == [list EXCEPT ![idx].authenticated = value]

\* hasUsername that takes every account for a GitHub account
hasUsernameAlways(account) == TRUE

\* line 1468: if (account.username)
hasUsername(account) == account.username # ""

\* afterPrompt without the return on a dismissed warning
afterPromptDismissedContinues(action) ==
  CASE action = "Switch Account" -> "done"
    [] action = "dismissed" -> "setGitUser"
    [] action = "Continue Anyway" -> "setGitUser"

\* lines 1513-1527: where the answer to the "no collaborator access" warning leads
afterPrompt(action) ==
  CASE action = "Switch Account" -> "done"
    [] action = "dismissed" -> "done"
    [] action = "Continue Anyway" -> "setGitUser"

\* ------------------------------------------------------------------- state
VARIABLES
  accounts,    \* .vscode/github-accounts.json: the list of Account records
  vault,       \* SecretStorage: username -> token of key github-token-<username>
  registry,    \* globalState 'github-token-registry': list of usernames
  localId,     \* git config user.name / user.email of the working directory
  cred,        \* ~/.git-credentials: list of lines
  isRepo,      \* the workspace folder is a git repository
  remoteUrl,   \* URL of the origin remote
  sw,          \* the running handleSwitchToAccount invocation
  auto,        \* the last auto-activation: what it saw and what it chose
  ops,         \* number of commands and auto-activations started so far
  cmd,         \* the last account-store or vault command: what it saw and did
  disk,        \* the raw accounts file, its backup and the .gitignore file
  tasks,       \* the operations in flight when handlers run concurrently
  host         \* the workspace flag of the import, its notices and the host's answers

vars == <<accounts, vault, registry, localId, cred, isRepo, remoteUrl, sw, auto, ops, cmd,
          disk, tasks, host>>

Globals == [localId |-> localId, accounts |-> accounts, vault |-> vault,
            registry |-> registry, cred |-> cred, remoteUrl |-> remoteUrl]

NoGlobals == [localId |-> [name |-> "", email |-> ""], accounts |-> <<>>,
              vault |-> [u \in Usernames |-> NoToken], registry |-> <<>>,
              cred |-> <<>>, remoteUrl |-> <<>>]

Idle == [pc |-> "idle", account |-> NoAccount, caller |-> "", pre |-> NoGlobals,
         accessToken |-> NoToken, isGitRepo |-> FALSE, hasRepoAccess |-> TRUE,
         loaded |-> <<>>, site |-> "", outcome |-> "", log |-> <<>>]

NoAccess == [t \in Tokens |-> FALSE]

NoAuto == [fn |-> "", outcome |-> "", pre |-> NoGlobals,
           chosen |-> NoAccount, access |-> NoAccess]

\* the accounts file holds a JSON list (the variable accounts), no backup
\* exists and .gitignore holds one unrelated line; module: which of the two
\* account-manager modules of the repository is the one in the build
WellFormedDisk == [module |-> "rootIgnore", form |-> "list", backup |-> "none",
                   gitignore |-> <<"node_modules">>]

\* no handler is in flight
NoTasks == <<>>

\* workspaceState and what the host shows and answers in this workspace:
\* hasAutoImported: the flag hasAutoImported-<workspaceId>; notices: how many
\* times the "Imported N GitHub accounts" message was shown; runs: the runs of
\* autoImportGitHubAccounts so far; session, profiles: the GitHub session of
\* the host and the answers of GET /user and GET /user/emails for each token,
\* where they stay the same from one run to the next
NoHost == [hasAutoImported |-> FALSE, notices |-> 0, runs |-> 0,
           session |-> NoSession, profiles |-> NoProfiles]

\* no request to GET /user has been answered
NoAnswers == [u \in {"a", "b"} |-> ""]

\* op: the command; username, token, session, profiles: its inputs; outcome:
\* how it ended; tokens: the list it returned; disk: the files before it;
\* answer: how the HTTP exchange of an API call went; answers: how GET /user
\* went for the token of each username; loaded: the list the command loaded;
\* faulted: a collaborator call
\* (secret storage, globalState, the accounts file) has thrown in this or an
\* earlier command
NoCmd == [op |-> "", outcome |-> "", pre |-> NoGlobals, username |-> "", token |-> NoToken,
          session |-> NoSession, profiles |-> NoProfiles, tokens |-> <<>>,
          disk |-> WellFormedDisk, answer |-> "", answers |-> NoAnswers, loaded |-> <<>>,
          faulted |-> FALSE]

\* lists of at most n records of the universe with pairwise different names
RECURSIVE StoresOfLen(_)
StoresOfLen(n) ==
  IF n = 0 THEN { <<>> }
  ELSE { Append(s, a) : s \in StoresOfLen(n - 1),
                        a \in AccountUniverse } 

DistinctNames(s) == \A i, j \in 1..Len(s) : i # j => s[i].name # s[j].name

Stores == UNION { { s \in StoresOfLen(n) : DistinctNames(s) } : n \in 0..MaxAccounts }

RegistryOf(v) ==
  (IF v["a"] # NoToken THEN <<"a">> ELSE <<>>) \o (IF v["b"] # NoToken THEN <<"b">> ELSE <<>>)

\* user.name / user.email before the first operation: unset, or those of
\* account A (matched when A is in the store, set but unmatched when it is not)
InitialIdentities ==
  { [name |-> "", email |-> ""],
    [name |-> "A", email |-> "a@x.com"] }

Init ==
  /\ accounts \in Stores
  /\ vault \in { [a |-> ta, b |-> tb] : ta \in {NoToken, "ta"}, tb \in {NoToken, "tb"} }
  /\ registry = RegistryOf(vault)
  /\ localId \in InitialIdentities
  /\ cred = <<>>
  /\ isRepo \in BOOLEAN
  /\ remoteUrl \in (IF isRepo THEN RemoteUrls ELSE { <<>> })
  /\ sw = Idle
  /\ auto = NoAuto
  /\ ops = 0
  /\ cmd = NoCmd
  /\ disk = WellFormedDisk
  /\ tasks = NoTasks
  /\ host = NoHost

\* ------------------------------------------------- handleSwitchToAccount
Logged(e) == Append(sw.log, e)

\* the invocation starts: const account = the record the caller loaded
Begin(account, caller) ==
  sw' = [Idle EXCEPT !.pc = "vaultGet", !.account = account, !.caller = caller,
                     !.pre = Globals]

\* the inner catch (lines 1602-1634) starts with setGitUser
EnterCatch(e) == [sw EXCEPT !.pc = "setGitUser", !.site = "catch", !.log = Logged(e)]

Finish(outcome, e) == [sw EXCEPT !.pc = "done", !.outcome = outcome, !.log = Logged(e)]

\* gitshift.switchToAccount / handleSwitchAccount: the user picks a record
SwitchToAccount ==
  /\ sw.pc = "idle"
  /\ ops < MaxOps
  /\ ops' = ops + 1
  /\ \E i \in 1..Len(accounts) : Begin(accounts[i], "user")
  /\ auto' = NoAuto
  /\ UNCHANGED <<accounts, vault, registry, localId, cred, isRepo, remoteUrl, cmd, disk, tasks, host>>

\* lines 1466-1474: username test and secrets.get
VaultGet ==
  /\ sw.pc = "vaultGet"
  /\ IF ~hasUsername(sw.account)
       THEN sw' = [sw EXCEPT !.pc = "setGitUser", !.site = "local"]
       ELSE \E r \in {"ok", "throw"} :
              IF r = "throw" THEN sw' = EnterCatch("fail:vaultGet")
              ELSE IF secretsGet(vault, sw.account.username) # NoToken
                THEN sw' = [sw EXCEPT !.pc = "isRepo",
                                      !.accessToken = secretsGet(vault, sw.account.username),
                                      !.log = Logged("vaultGet") \o <<"tokenResolved">>]
              ELSE IF sw.account.accountId # ""
                THEN sw' = [sw EXCEPT !.pc = "recover", !.log = Logged("vaultGet")]
              ELSE sw' = [sw EXCEPT !.pc = "noTokLoad", !.log = Logged("vaultGet")]
  /\ UNCHANGED <<accounts, vault, registry, localId, cred, isRepo, remoteUrl, auto, ops, cmd, disk, tasks, host>>

\* lines 1474-1485: one-shot recovery from the VS Code session
Recover ==
  /\ sw.pc = "recover"
  /\ \E session \in Sessions, r \in {"ok", "secretFail", "registerFail"} :
       LET s == getGitHubSessionByAccountId(session, sw.account.accountId)
           u == sw.account.username
       IN IF s = NoSession
            THEN /\ sw' = [sw EXCEPT !.pc = "noTokLoad", !.log = Logged("noSession")]
                 /\ UNCHANGED <<vault, registry>>
          ELSE IF r = "secretFail"
            THEN /\ sw' = [sw EXCEPT !.pc = "noTokLoad", !.log = Logged("fail:vaultStore")]
                 /\ UNCHANGED <<vault, registry>>
          ELSE IF r = "registerFail"
            THEN /\ sw' = [sw EXCEPT !.pc = "noTokLoad", !.log = Logged("fail:vaultStore")]
                 /\ vault' = [vault EXCEPT ![u] = s.accessToken]
                 /\ UNCHANGED registry
          ELSE /\ sw' = [sw EXCEPT !.pc = "isRepo", !.accessToken = s.accessToken,
                                   !.log = Logged("vaultStore") \o <<"tokenResolved">>]
               /\ vault' = [vault EXCEPT ![u] = s.accessToken]
               /\ registry' = registerToken(registry, u)
  /\ UNCHANGED <<accounts, localId, cred, isRepo, remoteUrl, auto, ops, cmd, disk, tasks, host>>

\* lines 1489-1505: isGitRepository, getRemoteUrl, checkCollaboratorAccess
IsRepoAndAccess ==
  /\ sw.pc = "isRepo"
  /\ IF isRepo /\ HostMatchingRemote(remoteUrl)
       THEN \E resp \in ApiResponses :
              LET has == checkCollaboratorAccess(resp, sw.account.username)
                  ev == IF resp.status # "ok" THEN "fail:accessCheck"
                        ELSE "accessCheck"
              IN sw' = [sw EXCEPT !.pc = IF has THEN "setGitUser" ELSE "prompt",
                                  !.site = "main", !.isGitRepo = TRUE,
                                  !.hasRepoAccess = has, !.log = Logged(ev)]
       ELSE sw' = [sw EXCEPT !.pc = "setGitUser", !.site = "main", !.isGitRepo = isRepo]
  /\ UNCHANGED <<accounts, vault, registry, localId, cred, isRepo, remoteUrl, auto, ops, cmd, disk, tasks, host>>

\* lines 1506-1531: the modal "no collaborator access" warning
Prompt ==
  /\ sw.pc = "prompt"
  /\ \E action \in {"Continue Anyway", "Switch Account", "dismissed"} :
       sw' = [sw EXCEPT !.pc = afterPrompt(action), !.site = "main",
                        !.outcome = CASE action = "Switch Account" -> "reselect"
                                      [] action = "dismissed" -> "cancelled"
                                      [] action = "Continue Anyway" -> "",
                        !.log = CASE action = "Switch Account" -> Logged("prompt:SwitchAccount")
                                  [] action = "dismissed" -> Logged("prompt:dismissed")
                                  [] action = "Continue Anyway" ->
                                       Logged("prompt:Continue") \o <<"report:SwitchedNoAccess">>]
  /\ UNCHANGED <<accounts, vault, registry, localId, cred, isRepo, remoteUrl, auto, ops, cmd, disk, tasks, host>>

\* setGitUser that writes user.name only
setGitUserNameOnly(id, account, r) ==
  CASE r = "ok" -> [id EXCEPT !.name = account.name]
    [] r = "failName" -> id
    [] r = "failEmail" -> [id EXCEPT !.name = account.name]

\* gitManager.ts setGitUser(account.name, account.email): git config user.name,
\* then git config user.email; the first failing command throws
setGitUser(id, account, r) ==
  CASE r = "ok" -> [name |-> account.name, email |-> account.email]
    [] r = "failName" -> id
    [] r = "failEmail" -> [id EXCEPT !.name = account.name]

\* the three call sites of setGitUser and what follows each without a write:
\* line 1537 (main), lines 1605-1629 (the inner catch, with its messages) and
\* lines 1637-1640 (account without username; a failure lands in the outer
\* catch of lines 1672-1680)
SetGitUser ==
  /\ sw.pc = "setGitUser"
  /\ \E r \in {"ok", "failName", "failEmail"} :
       /\ localId' = setGitUser(localId, sw.account, r)
       /\ sw' =
            CASE sw.site = "main" /\ r = "ok" ->
                   [sw EXCEPT !.pc = "flagLoad", !.log = Logged("setGitUser")]
              [] sw.site = "main" /\ r # "ok" -> EnterCatch("fail:gitConfig")
              [] sw.site = "catch" /\ r = "ok" ->
                   [sw EXCEPT !.pc = "post", !.outcome = "fallback",
                      !.log = Logged("setGitUser") \o
                              <<IF isRepo THEN "report:SwitchedCredentialsFailed"
                                ELSE "report:SwitchedInitRepo">>]
              [] sw.site = "catch" /\ r # "ok" ->
                   [sw EXCEPT !.pc = "post", !.outcome = "fallbackFailed",
                      !.log = Logged("fail:gitConfig") \o
                              <<IF isRepo THEN "warning:FailedToSwitch"
                                ELSE "report:SwitchedCompleteSetup">>]
              [] sw.site = "local" /\ r = "ok" ->
                   [sw EXCEPT !.pc = "post", !.outcome = "localOnly",
                      !.log = Logged("setGitUser") \o <<"report:SwitchedLocalOnly">>]
              [] sw.site = "local" /\ r # "ok" ->
                   [sw EXCEPT !.pc = "done", !.outcome = "failed",
                      !.log = Logged("fail:gitConfig") \o <<"error:FailedToSwitchAccount">>]
  /\ UNCHANGED <<accounts, vault, registry, cred, isRepo, remoteUrl, auto, ops, cmd, disk, tasks, host>>

\* lines 1539-1541: if (!account.authenticated) accounts = await loadAccounts()
FlagLoad ==
  /\ sw.pc = "flagLoad"
  /\ IF sw.account.authenticated
       THEN sw' = [sw EXCEPT !.pc = "cred"]
       ELSE \E ok \in BOOLEAN :
              IF ok THEN sw' = [sw EXCEPT !.pc = "flagSave", !.loaded = accounts]
              ELSE sw' = EnterCatch("fail:load")
  /\ UNCHANGED <<accounts, vault, registry, localId, cred, isRepo, remoteUrl, auto, ops, cmd, disk, tasks, host>>

\* lines 1542-1546: findIndex by username, authenticated = true, saveAccounts
FlagSave ==
  /\ sw.pc = "flagSave"
  /\ LET idx == findIndexByUsername(sw.loaded, sw.account.username)
     IN IF idx = 0
          THEN /\ sw' = [sw EXCEPT !.pc = "cred", !.loaded = <<>>]
               /\ UNCHANGED accounts
          ELSE \E ok \in BOOLEAN :
                 IF ok
                   THEN /\ accounts' = setAuthenticated(sw.loaded, idx, TRUE)
                        /\ sw' = [sw EXCEPT !.pc = "cred", !.loaded = <<>>,
                                            !.log = Logged("save:authenticated=true")]
                   ELSE /\ UNCHANGED accounts
                        /\ sw' = [EnterCatch("fail:save") EXCEPT !.loaded = <<>>]
  /\ UNCHANGED <<vault, registry, localId, cred, isRepo, remoteUrl, auto, ops, cmd, disk, tasks, host>>

\* line 1550, gitCredentials.ts configureGitCredentials: git config --local
\* credential.helper store, then storeCredentialsInGitStore; errors are swallowed
ConfigureGitCredentials ==
  /\ sw.pc = "cred"
  /\ \E r \in {"ok", "fail"} :
       IF r = "ok"
         THEN /\ cred' = storeCredentialsInGitStore(cred, sw.account.username, sw.accessToken)
              /\ sw' = [sw EXCEPT !.pc = "url", !.log = Logged("credWrite")]
         ELSE /\ UNCHANGED cred
              /\ sw' = [sw EXCEPT !.pc = "url", !.log = Logged("fail:credentials")]
  /\ UNCHANGED <<accounts, vault, registry, localId, isRepo, remoteUrl, auto, ops, cmd, disk, tasks, host>>

\* lines 1552-1567: updateRemoteUrlWithToken when in a repository with a GitHub
\* remote, then the success message; errors of the rewrite are swallowed
UpdateRemoteUrl ==
  /\ sw.pc = "url"
  /\ LET report == IF ~sw.isGitRepo \/ sw.hasRepoAccess THEN <<"report:Switched">> ELSE <<>>
         u == sw.account.username
         clean == cleanUrl(remoteUrl, u)
     IN IF sw.isGitRepo /\ HostMatchingRemote(remoteUrl)
          THEN \E r \in {"ok", "storeFail", "gitFail"} :
                 /\ cred' = IF r = "storeFail" THEN cred
                            ELSE storeCredentialsInGitStore(cred, u, sw.accessToken)
                 /\ remoteUrl' = IF r = "ok" /\ clean # <<>> THEN clean ELSE remoteUrl
                 /\ sw' = [sw EXCEPT !.pc = "post", !.outcome = "switched",
                                     !.log = Logged(IF r = "ok" /\ clean # <<>>
                                                      THEN "urlRewrite" ELSE "fail:remoteUrl")
                                             \o report]
          ELSE /\ UNCHANGED <<cred, remoteUrl>>
               /\ sw' = [sw EXCEPT !.pc = "post", !.outcome = "switched",
                                   !.log = sw.log \o report]
  /\ UNCHANGED <<accounts, vault, registry, localId, isRepo, auto, ops, cmd, disk, tasks, host>>

\* lines 1569-1571: no token; if (account.authenticated) accounts = await loadAccounts()
NoTokenLoad ==
  /\ sw.pc = "noTokLoad"
  /\ IF ~sw.account.authenticated
       THEN sw' = Finish("noToken", "report:NoToken")
       ELSE \E ok \in BOOLEAN :
              IF ok THEN sw' = [sw EXCEPT !.pc = "noTokSave", !.loaded = accounts]
              ELSE sw' = EnterCatch("fail:load")
  /\ UNCHANGED <<accounts, vault, registry, localId, cred, isRepo, remoteUrl, auto, ops, cmd, disk, tasks, host>>

\* lines 1572-1600: authenticated = false, saveAccounts, the "No token found" modal
NoTokenSave ==
  /\ sw.pc = "noTokSave"
  /\ LET idx == findIndexByUsername(sw.loaded, sw.account.username)
     IN IF idx = 0
          THEN /\ sw' = [Finish("noToken", "report:NoToken") EXCEPT !.loaded = <<>>]
               /\ UNCHANGED accounts
          ELSE \E ok \in BOOLEAN :
                 IF ok
                   THEN /\ accounts' = setAuthenticated(sw.loaded, idx, FALSE)
                        /\ sw' = [sw EXCEPT !.pc = "done", !.outcome = "noToken", !.loaded = <<>>,
                                    !.log = Logged("save:authenticated=false") \o <<"report:NoToken">>]
                   ELSE /\ UNCHANGED accounts
                        /\ sw' = [EnterCatch("fail:save") EXCEPT !.loaded = <<>>]
  /\ UNCHANGED <<vault, registry, localId, cred, isRepo, remoteUrl, auto, ops, cmd, disk, tasks, host>>

\* lines 1643-1680: status bar, tree and sidebar refresh (reads only); a
\* failing loadAccounts lands in the outer catch and its error message
PostSwitch ==
  /\ sw.pc = "post"
  /\ \E ok \in BOOLEAN :
       sw' = IF ok THEN [sw EXCEPT !.pc = "done"]
             ELSE [sw EXCEPT !.pc = "done",
                             !.log = Logged("fail:load") \o <<"error:FailedToSwitchAccount">>]
  /\ UNCHANGED <<accounts, vault, registry, localId, cred, isRepo, remoteUrl, auto, ops, cmd, disk, tasks, host>>

\* the promise of handleSwitchToAccount resolves
Return ==
  /\ sw.pc = "done"
  /\ sw' = Idle
  /\ auto' = NoAuto
  /\ UNCHANGED <<accounts, vault, registry, localId, cred, isRepo, remoteUrl, ops, cmd, disk, tasks, host>>

\* ------------------------------------------------------------ auto-activation
\* gitManager.ts getCurrentGitUser: null unless both values are set
getCurrentGitUser(id) == id.name # "" /\ id.email # ""

\* matchingAccount that looks at accounts[0] only
matchingAccountFirstOnly(accts, id) ==
  Len(accts) > 0 /\ accts[1].name = id.name /\ accts[1].email = id.email

\* accounts.find(acc => acc.name === currentUser.name && acc.email === currentUser.email)
matchingAccount(accts, id) ==
  \E i \in 1..Len(accts) : accts[i].name = id.name /\ accts[i].email = id.email

\* firstAccount that takes the last record
lastAccount(accts) == accts[Len(accts)]

\* autoActivateFirstAccountIfNeeded line 1448: accounts[0]
firstAccount(accts) == accts[1]

\* githubAuth.ts getAllStoredTokens: the registry after its self-heal
\* getAllStoredTokens that leaves the registry as it finds it
healedRegistryUnhealed(reg, v) == reg

healedRegistry(reg, v) == SelectSeq(reg, LAMBDA u : secretsGet(v, u) # NoToken)

\* getGitHubToken(username) followed by checkRepoAccess(token, owner, repo)
tokenHasAccess(v, access, username) ==
  secretsGet(v, username) # NoToken /\ access[secretsGet(v, username)]

\* the first item of a list of accounts that passes tokenHasAccess, skipping
\* the username skip; NoAccount if none
firstWithAccess(list, v, access, skip) ==
  LET hits == { i \in 1..Len(list) : list[i].username # skip
                                      /\ tokenHasAccess(v, access, list[i].username) }
  IN IF hits = {} THEN NoAccount
     ELSE list[CHOOSE i \in hits : \A j \in hits : i <= j]

\* accountWithRepoAccess without the owner check of lines 2274-2298
accountWithRepoAccessNoOwnerPriority(accts, v, access, owner) ==
  LET accountsWithTokens == SelectSeq(accts, LAMBDA a : a.username # "")
      authenticatedAccounts == SelectSeq(accountsWithTokens, LAMBDA a : a.authenticated)
      otherAccounts == SelectSeq(accountsWithTokens, LAMBDA a : ~a.authenticated)
      fromAuthenticated == firstWithAccess(authenticatedAccounts, v, access, "")
  IN IF fromAuthenticated # NoAccount THEN fromAuthenticated
     ELSE firstWithAccess(otherAccounts, v, access, "")

\* accountWithRepoAccess that scans the candidates in store order without
\* partitioning them by the authenticated flag
accountWithRepoAccessNoPartition(accts, v, access, owner) ==
  firstWithAccess(SelectSeq(accts, LAMBDA a : a.username # ""), v, access, "")

\* lines 2224-2355: the account with confirmed access to owner/repo
accountWithRepoAccess(accts, v, access, owner) ==
  LET accountsWithTokens == SelectSeq(accts, LAMBDA a : a.username # "")
      authenticatedAccounts == SelectSeq(accountsWithTokens, LAMBDA a : a.authenticated)
      otherAccounts == SelectSeq(accountsWithTokens, LAMBDA a : ~a.authenticated)
      ownerFound == \E i \in 1..Len(authenticatedAccounts) :
                       <<authenticatedAccounts[i].username>> = owner
      ownerAccount == authenticatedAccounts[CHOOSE i \in 1..Len(authenticatedAccounts) :
                        /\ <<authenticatedAccounts[i].username>> = owner
                        /\ \A j \in 1..(i - 1) : <<authenticatedAccounts[j].username>> # owner]
      fromAuthenticated == firstWithAccess(authenticatedAccounts, v, access,
                                           IF ownerFound THEN ownerAccount.username ELSE "")
  IN IF ownerFound /\ tokenHasAccess(v, access, ownerAccount.username) THEN ownerAccount
     ELSE IF fromAuthenticated # NoAccount THEN fromAuthenticated
     ELSE firstWithAccess(otherAccounts, v, access, "")

\* defaultAccount that takes accounts[0] whatever the flags
defaultAccountFirst(accts) == accts[1]

\* lines 2367-2371: accounts.find(acc => acc.authenticated) || accounts[0]
defaultAccount(accts) ==
  LET hits == { i \in 1..Len(accts) : accts[i].authenticated }
  IN IF hits = {} THEN accts[1]
     ELSE accts[CHOOSE i \in hits : \A j \in hits : i <= j]

Started(fn, outcome, chosen, access) ==
  [fn |-> fn, outcome |-> outcome, pre |-> Globals, chosen |-> chosen, access |-> access]

\* autoActivateFirstAccountIfNeeded (lines 1429-1455), up to its call of
\* handleSwitchToAccount
AutoActivateFirstAccountIfNeeded ==
  /\ sw.pc = "idle"
  /\ ops < MaxOps
  /\ ops' = ops + 1
  /\ \E loadOk \in BOOLEAN :
       LET fn == "autoActivateFirstAccountIfNeeded"
       IN IF isRepo
            THEN /\ auto' = Started(fn, "skipped:inRepository", NoAccount, NoAccess)
                 /\ UNCHANGED sw
          ELSE IF ~loadOk
            THEN /\ auto' = Started(fn, "error:load", NoAccount, NoAccess)
                 /\ UNCHANGED sw
          ELSE IF Len(accounts) = 0
            THEN /\ auto' = Started(fn, "skipped:noAccounts", NoAccount, NoAccess)
                 /\ UNCHANGED sw
          ELSE /\ auto' = Started(fn, "switch", firstAccount(accounts), NoAccess)
               /\ Begin(firstAccount(accounts), "auto")
  /\ UNCHANGED <<accounts, vault, registry, localId, cred, isRepo, remoteUrl, cmd, disk, tasks, host>>

\* autoActivateFirstAccount (lines 2169-2390), up to its call of
\* handleSwitchToAccount
AutoActivateFirstAccount ==
  /\ sw.pc = "idle"
  /\ ops < MaxOps
  /\ ops' = ops + 1
  /\ \E loadOk \in BOOLEAN, access \in [Tokens -> BOOLEAN] :
       LET fn == "autoActivateFirstAccount"
           stored == { vault[accounts[i].username] :
                         i \in { j \in 1..Len(accounts) : accounts[j].username # "" } }
           repoInfo == parseGitHubUrl(remoteUrl)
           checked == remoteUrl # <<>> /\ repoInfo.ok
           found == IF checked
                      THEN accountWithRepoAccess(accounts, vault, access, repoInfo.owner)
                      ELSE NoAccount
           accountToActivate == IF found # NoAccount THEN found ELSE defaultAccount(accounts)
       IN /\ \A t \in Tokens : access[t] => t \in stored
          /\ IF ~isRepo
               THEN /\ auto' = Started(fn, "skipped:noRepository", NoAccount, NoAccess)
                    /\ UNCHANGED <<sw, registry>>
             ELSE IF ~loadOk
               THEN /\ auto' = Started(fn, "error:load", NoAccount, NoAccess)
                    /\ UNCHANGED <<sw, registry>>
             ELSE IF getCurrentGitUser(localId) /\ matchingAccount(accounts, localId)
               THEN /\ auto' = Started(fn, "skipped:matched", NoAccount, NoAccess)
                    /\ UNCHANGED <<sw, registry>>
             ELSE IF Len(accounts) = 0
               THEN /\ auto' = Started(fn, "skipped:noAccounts", NoAccount, NoAccess)
                    /\ UNCHANGED <<sw, registry>>
             ELSE /\ auto' = Started(fn, "switch", accountToActivate,
                                     IF checked THEN access ELSE NoAccess)
                  /\ registry' = IF checked THEN healedRegistry(registry, vault) ELSE registry
                  /\ sw' = [Idle EXCEPT !.pc = "vaultGet", !.account = accountToActivate,
                                        !.caller = "auto",
                                        !.pre = [Globals EXCEPT !.registry = registry']]
  /\ UNCHANGED <<accounts, vault, localId, cred, isRepo, remoteUrl, cmd, disk, tasks, host>>

\* ------------------------------------------------------ account-store commands
\* emails.find(test)?.email for the indices hits that pass the test, "" for undefined
firstEmailAt(emails, hits) ==
  IF hits = {} THEN "" ELSE emails[CHOOSE i \in hits : \A j \in hits : i <= j].email

\* the email resolution that takes the first listed address
primaryEmailFirstListed(p) == IF Len(p.emails) > 0 THEN p.emails[1].email ELSE p.email

\* emails.find(e => e.primary && e.verified)?.email || emails.find(e => e.verified)?.email
\*   || emails.find(e => e.primary)?.email || emails[0]?.email || user.email
primaryEmail(p) ==
  LET all == 1..Len(p.emails)
      pv == firstEmailAt(p.emails, { i \in all : p.emails[i].primary /\ p.emails[i].verified })
      v == firstEmailAt(p.emails, { i \in all : p.emails[i].verified })
      pr == firstEmailAt(p.emails, { i \in all : p.emails[i].primary })
      first == firstEmailAt(p.emails, all)
  IN IF pv # "" THEN pv ELSE IF v # "" THEN v ELSE IF pr # "" THEN pr
     ELSE IF first # "" THEN first ELSE p.email

\* user.name || user.login
displayName(p) == IF p.name # "" THEN p.name ELSE p.login

\* the record built from a session and the profile of its token
sessionAccount(p, session) ==
  [label |-> p.login, name |-> displayName(p), email |-> primaryEmail(p),
   username |-> p.login, accountId |-> session.id, sessionId |-> session.sessionId,
   authenticated |-> TRUE]

\* the record built from a stored token and its profile
tokenAccount(p) ==
  [label |-> p.login, name |-> displayName(p), email |-> primaryEmail(p),
   username |-> p.login, accountId |-> "", sessionId |-> "", authenticated |-> TRUE]

\* accounts.findIndex(acc => acc.username === user.login || acc.email === primaryEmail),
\* 0 for -1
existingIndex(accts, login, email) ==
  LET hits == { i \in 1..Len(accts) : accts[i].username = login \/ accts[i].email = email }
  IN IF hits = {} THEN 0 ELSE CHOOSE i \in hits : \A j \in hits : i <= j

\* accounts[idx] = record when idx >= 0, accounts.push(record) otherwise
upsert(accts, idx, record) ==
  IF idx = 0 THEN Append(accts, record) ELSE [accts EXCEPT ![idx] = record]

\* the profile of the session's token was fetched and has an email
importable(session, profiles) ==
  /\ session # NoSession
  /\ profiles[session.accessToken] # NoProfile
  /\ primaryEmail(profiles[session.accessToken]) # ""

\* autoImportGitHubAccounts step 1 (lines 2414-2474) on the loaded list
importSession(accts, session, profiles) ==
  IF importable(session, profiles)
    THEN LET p == profiles[session.accessToken]
         IN upsert(accts, existingIndex(accts, p.login, primaryEmail(p)),
                   sessionAccount(p, session))
    ELSE accts

\* autoImportGitHubAccounts step 2 (lines 2479-2528) over the stored tokens
RECURSIVE importStored(_, _, _, _)
importStored(accts, names, v, profiles) ==
  IF names = <<>> THEN accts
  ELSE LET username == Head(names)
           p == profiles[v[username]]
           idx == findIndexByUsername(accts, username)
           next == IF idx # 0 THEN [accts EXCEPT ![idx].authenticated = TRUE]
                   ELSE IF p = NoProfile \/ primaryEmail(p) = "" THEN accts
                   ELSE Append(accts, tokenAccount(p))
       IN importStored(next, Tail(names), v, profiles)

\* the vault and the registry after storeGitHubToken(user.login, session.accessToken)
\* of step 1
vaultAfterSession(v, session, profiles) ==
  IF importable(session, profiles)
    THEN [v EXCEPT ![profiles[session.accessToken].login] = session.accessToken]
    ELSE v

registryAfterSession(reg, session, profiles) ==
  IF importable(session, profiles)
    THEN registerToken(reg, profiles[session.accessToken].login)
    ELSE reg

\* the list autoImportGitHubAccounts arrives at when no call fails
importAccounts(accts, v, reg, session, profiles) ==
  LET v1 == vaultAfterSession(v, session, profiles)
      reg1 == registryAfterSession(reg, session, profiles)
  IN importStored(importSession(accts, session, profiles), healedRegistry(reg1, v1),
                  v1, profiles)

\* the remote profiles at the time of a command: what GET /user and
\* GET /user/emails answer for each token
ProfileAssignments ==
  { f \in [Tokens -> Profiles] : f["tb"] = NoProfile \/ f["tb"].emails = <<>> }

Command(op, outcome, username, token, session, profiles, fault) ==
  [op |-> op, outcome |-> outcome, pre |-> Globals, username |-> username, token |-> token,
   session |-> session, profiles |-> profiles, tokens |-> <<>>, disk |-> disk,
   answer |-> "", answers |-> NoAnswers, loaded |-> <<>>, faulted |-> cmd.faulted \/ fault]

\* the message shown whenever records were pushed
noticeShownEveryRun(importedCount, hasAutoImported) == importedCount > 0

\* line 2533: if (importedCount > 0 && !hasAutoImported)
noticeShown(importedCount, hasAutoImported) == importedCount > 0 /\ ~hasAutoImported

\* autoImportGitHubAccounts (lines 2395-2572) with the session and the
\* profiles the host answers with; fault: the call that throws (load:
\* loadAccounts, store: storeGitHubToken of step 1, save: saveAccounts, flag:
\* workspaceState.update). importedCount is the number of records pushed; the
\* message of lines 2534-2539 is shown after the save when records were pushed
\* and the flag read at line 2404 was not set; line 2555 sets the flag
ImportRun(session, profiles, fault) ==
  LET can == importable(session, profiles)
      stored == can /\ fault # "store"
      v1 == IF stored THEN vaultAfterSession(vault, session, profiles) ELSE vault
      reg1 == IF stored THEN registryAfterSession(registry, session, profiles)
              ELSE registry
      names == healedRegistry(reg1, v1)
      afterSession == importSession(accounts, session, profiles)
      result == importStored(afterSession, names, v1, profiles)
      changed == can \/ result # afterSession
      saved == changed /\ fault \notin {"load", "save"}
      importedCount == Len(result) - Len(accounts)
      noticed == saved /\ noticeShown(importedCount, host.hasAutoImported)
      flagged == fault \notin {"load", "flag"} /\ ~(changed /\ fault = "save")
      done(outcome) == Command("import", outcome, "", NoToken, session, profiles,
                               fault # "none")
  IN /\ fault = "store" => can
     /\ fault = "save" => changed
     /\ host' = [host EXCEPT !.runs = @ + 1,
                             !.notices = IF noticed THEN @ + 1 ELSE @,
                             !.hasAutoImported = @ \/ flagged]
     /\ IF fault = "load"
          THEN /\ cmd' = done("error:load")
               /\ UNCHANGED <<accounts, vault, registry>>
          ELSE /\ vault' = v1
               /\ registry' = names
               /\ accounts' = IF saved THEN result ELSE accounts
               /\ cmd' = done(IF fault = "flag" THEN "error:flag"
                              ELSE IF ~changed THEN "nothing"
                              ELSE IF fault = "save" THEN "error:save" ELSE "saved")

\* one run of autoImportGitHubAccounts, whatever the host answers
Import ==
  /\ sw.pc = "idle"
  /\ ops < MaxOps
  /\ ops' = ops + 1
  /\ \E session \in Sessions, profiles \in ProfileAssignments,
        fault \in {"none", "load", "store", "save", "flag"} :
       /\ \A t \in Tokens :
            profiles[t] # NoProfile =>
              (t = session.accessToken \/ \E u \in Usernames : vault[u] = t)
       /\ fault = "load" => (session = NoSession /\ profiles = NoProfiles)
       /\ ImportRun(session, profiles, fault)
  /\ UNCHANGED <<localId, cred, isRepo, remoteUrl, sw, auto, disk, tasks>>

\* gitshift.importAccounts, "Add Another" (lines 241-308): one more account
\* from a session the user signs in to
ImportAnother ==
  /\ sw.pc = "idle"
  /\ ops < MaxOps
  /\ ops' = ops + 1
  /\ \E session \in Sessions \ {NoSession}, p \in Profiles,
        fault \in {"none", "load", "store", "save"} :
       LET profiles == [NoProfiles EXCEPT ![session.accessToken] = p]
           can == importable(session, profiles)
           done(outcome) == Command("importAnother", outcome, p.login, session.accessToken,
                                    session, profiles, fault # "none")
       IN IF ~can
            THEN /\ fault = "none"
                 /\ cmd' = done(IF p = NoProfile THEN "error:profile" ELSE "error:email")
                 /\ UNCHANGED <<accounts, vault, registry>>
          ELSE IF fault \in {"load", "store"}
            THEN /\ cmd' = done("error:" \o fault)
                 /\ UNCHANGED <<accounts, vault, registry>>
          ELSE /\ vault' = vaultAfterSession(vault, session, profiles)
               /\ registry' = registryAfterSession(registry, session, profiles)
               /\ accounts' = IF fault = "save" THEN accounts
                              ELSE importSession(accounts, session, profiles)
               /\ cmd' = done(IF fault = "save" THEN "error:save" ELSE "saved")
  /\ UNCHANGED <<localId, cred, isRepo, remoteUrl, sw, auto, disk, tasks, host>>

\* accounts[idx] = { ...accounts[idx], username, name, email, authenticated: true }
\* (line 374) or accounts.push (lines 376-385)
upsertTokenAccount(accts, p) ==
  LET idx == findIndexByUsername(accts, p.login)
  IN IF idx = 0 THEN Append(accts, tokenAccount(p))
     ELSE [accts EXCEPT ![idx].username = p.login, ![idx].name = displayName(p),
                        ![idx].email = primaryEmail(p), ![idx].authenticated = TRUE]

\* gitshift.addToken (lines 333-408), up to the auto-activation that follows
AddToken ==
  /\ sw.pc = "idle"
  /\ ops < MaxOps
  /\ ops' = ops + 1
  /\ \E token \in Tokens, p \in Profiles, fault \in {"none", "load", "store", "save"} :
       LET profiles == [NoProfiles EXCEPT ![token] = p]
           done(outcome) == Command("addToken", outcome, p.login, token, NoSession, profiles,
                                    fault # "none")
       IN IF p = NoProfile
            THEN /\ fault = "none"
                 /\ cmd' = done("error:profile")
                 /\ UNCHANGED <<accounts, vault, registry>>
          ELSE IF fault = "store"
            THEN /\ cmd' = done("error:store")
                 /\ UNCHANGED <<accounts, vault, registry>>
          ELSE /\ vault' = [vault EXCEPT ![p.login] = token]
               /\ registry' = registerToken(registry, p.login)
               /\ IF fault = "load"
                    THEN cmd' = done("error:load") /\ UNCHANGED accounts
                  ELSE IF primaryEmail(p) = ""
                    THEN fault = "none" /\ cmd' = done("error:email") /\ UNCHANGED accounts
                  ELSE IF fault = "save"
                    THEN cmd' = done("error:save") /\ UNCHANGED accounts
                  ELSE cmd' = done("saved") /\ accounts' = upsertTokenAccount(accounts, p)
  /\ UNCHANGED <<localId, cred, isRepo, remoteUrl, sw, auto, disk, tasks, host>>

\* accounts.findIndex(a => a.username === user.login ||
\*   (a.email === newAccount.email && a.sessionId === workingSession.id)), 0 for -1
signInIndex(accts, record) ==
  LET hits == { i \in 1..Len(accts) :
                  \/ accts[i].username = record.username
                  \/ accts[i].email = record.email /\ accts[i].sessionId = record.sessionId }
  IN IF hits = {} THEN 0 ELSE CHOOSE i \in hits : \A j \in hits : i <= j

\* handleSignInWithGitHub (lines 1901-2011), up to the auto-activation that follows
SignInWithGitHub ==
  /\ sw.pc = "idle"
  /\ ops < MaxOps
  /\ ops' = ops + 1
  /\ \E session \in Sessions \ {NoSession}, p \in Profiles,
        fault \in {"none", "load", "store", "save"} :
       LET profiles == [NoProfiles EXCEPT ![session.accessToken] = p]
           newAccount == sessionAccount(p, session)
           done(outcome) == Command("signIn", outcome, p.login, session.accessToken,
                                    session, profiles, fault # "none")
       IN IF fault = "load"
            THEN /\ p = NoProfile
                 /\ cmd' = done("error:load")
                 /\ UNCHANGED <<accounts, vault, registry>>
          ELSE IF ~importable(session, profiles)
            THEN /\ fault = "none"
                 /\ cmd' = done(IF p = NoProfile THEN "error:profile" ELSE "error:email")
                 /\ UNCHANGED <<accounts, vault, registry>>
          ELSE IF fault = "store"
            THEN /\ cmd' = done("error:store")
                 /\ UNCHANGED <<accounts, vault, registry>>
          ELSE /\ vault' = [vault EXCEPT ![p.login] = session.accessToken]
               /\ registry' = registerToken(registry, p.login)
               /\ accounts' = IF fault = "save" THEN accounts
                              ELSE upsert(accounts, signInIndex(accounts, newAccount), newAccount)
               /\ cmd' = done(IF fault = "save" THEN "error:save" ELSE "saved")
  /\ UNCHANGED <<localId, cred, isRepo, remoteUrl, sw, auto, disk, tasks, host>>

\* accounts.findIndex(a => a.email === account.email && a.name === account.name), 0 for -1
linkIndex(accts, account) ==
  LET hits == { i \in 1..Len(accts) :
                  accts[i].email = account.email /\ accts[i].name = account.name }
  IN IF hits = {} THEN 0 ELSE CHOOSE i \in hits : \A j \in hits : i <= j

\* handleLinkAccount (lines 2016-2064) on a record of the store
LinkAccount ==
  /\ sw.pc = "idle"
  /\ ops < MaxOps
  /\ ops' = ops + 1
  /\ \E i \in 1..Len(accounts), session \in Sessions \ {NoSession}, p \in Profiles,
        fault \in {"none", "load", "store", "save"} :
       LET profiles == [NoProfiles EXCEPT ![session.accessToken] = p]
           index == linkIndex(accounts, accounts[i])
           done(outcome) == Command("linkAccount", outcome, p.login, session.accessToken,
                                    session, profiles, fault # "none")
       IN /\ p # NoProfile => p.emails = <<>>
          /\ IF p = NoProfile
               THEN /\ fault = "none"
                    /\ cmd' = done("error:profile")
                    /\ UNCHANGED <<accounts, vault, registry>>
             ELSE IF fault = "store"
               THEN /\ cmd' = done("error:store")
                    /\ UNCHANGED <<accounts, vault, registry>>
             ELSE /\ vault' = [vault EXCEPT ![p.login] = session.accessToken]
                  /\ registry' = registerToken(registry, p.login)
                  /\ accounts' =
                       IF fault # "none" THEN accounts
                       ELSE [accounts EXCEPT ![index].sessionId = session.sessionId,
                                             ![index].accountId = session.id,
                                             ![index].username = p.login,
                                             ![index].authenticated = TRUE]
                  /\ cmd' = done(IF fault = "none" THEN "saved" ELSE "error:" \o fault)
  /\ UNCHANGED <<localId, cred, isRepo, remoteUrl, sw, auto, disk, tasks, host>>

\* ---------------------------------------------------------------- token vault
\* githubAuth.ts unregisterToken: registry.filter(u => u !== username)
unregisterToken(reg, username) == SelectSeq(reg, LAMBDA u : u # username)

\* githubAuth.ts storeGitHubToken(username, token): secretStorage.store, then
\* registerToken; either call may throw
StoreGitHubToken ==
  /\ sw.pc = "idle"
  /\ ops < MaxVaultOps
  /\ ops' = ops + 1
  /\ \E username \in Usernames, token \in Tokens, r \in {"ok", "secretFail", "registerFail"} :
       /\ vault' = IF r = "secretFail" THEN vault ELSE [vault EXCEPT ![username] = token]
       /\ registry' = IF r = "ok" THEN registerToken(registry, username) ELSE registry
       /\ cmd' = Command("store", r, username, token, NoSession, NoProfiles, r # "ok")
  /\ UNCHANGED <<accounts, localId, cred, isRepo, remoteUrl, sw, auto, disk, tasks, host>>

\* githubAuth.ts deleteGitHubToken(username): secretStorage.delete, then
\* unregisterToken; either call may throw
DeleteGitHubToken ==
  /\ sw.pc = "idle"
  /\ ops < MaxVaultOps
  /\ ops' = ops + 1
  /\ \E username \in Usernames, r \in {"ok", "secretFail", "registerFail"} :
       /\ vault' = IF r = "secretFail" THEN vault ELSE [vault EXCEPT ![username] = NoToken]
       /\ registry' = IF r = "ok" THEN unregisterToken(registry, username) ELSE registry
       /\ cmd' = Command("delete", r, username, NoToken, NoSession, NoProfiles, r # "ok")
  /\ UNCHANGED <<accounts, localId, cred, isRepo, remoteUrl, sw, auto, disk, tasks, host>>

\* gitshift.deleteAccountToken (part_000 lines 179-184): secrets.delete alone,
\* the registry is not touched
DeleteAccountToken ==
  /\ sw.pc = "idle"
  /\ ops < MaxVaultOps
  /\ ops' = ops + 1
  /\ \E username \in Usernames, r \in {"ok", "secretFail"} :
       /\ vault' = IF r = "ok" THEN [vault EXCEPT ![username] = NoToken] ELSE vault
       /\ cmd' = Command("deleteAccountToken", r, username, NoToken, NoSession, NoProfiles,
                         r # "ok")
  /\ UNCHANGED <<accounts, registry, localId, cred, isRepo, remoteUrl, sw, auto, disk, tasks, host>>

\* the first record with the email, NoAccount for undefined
findByEmail(accts, email) ==
  LET hits == { i \in 1..Len(accts) : accts[i].email = email }
  IN IF hits = {} THEN NoAccount ELSE accts[CHOOSE i \in hits : \A j \in hits : i <= j]

\* _deleteAccount(email) of the accounts view (part_003 lines 230-248):
\* load, filter, save, then the deleteAccountToken command for the username
\* of the first record that had the email
DeleteAccount ==
  /\ sw.pc = "idle"
  /\ ops < MaxVaultOps
  /\ ops' = ops + 1
  /\ \E i \in 1..Len(accounts), fault \in {"none", "load", "save", "secret"} :
       LET email == accounts[i].email
           account == findByEmail(accounts, email)
           filtered == SelectSeq(accounts, LAMBDA acc : acc.email # email)
           done(outcome) == Command("deleteAccount", outcome, account.username, NoToken,
                                    NoSession, NoProfiles, fault # "none")
       IN /\ fault = "secret" => account.username # ""
          /\ IF fault \in {"load", "save"}
               THEN /\ cmd' = done("error:" \o fault)
                    /\ UNCHANGED <<accounts, vault>>
               ELSE /\ accounts' = filtered
                    /\ vault' = IF account.username # "" /\ fault = "none"
                                  THEN [vault EXCEPT ![account.username] = NoToken]
                                  ELSE vault
                    /\ cmd' = done(IF fault = "none" THEN "deleted" ELSE "error:secret")
  /\ UNCHANGED <<registry, localId, cred, isRepo, remoteUrl, sw, auto, disk, tasks, host>>

\* the {username, token} pairs of getAllStoredTokens for the usernames names
storedTokens(names, v) == [i \in 1..Len(names) |-> [username |-> names[i], token |-> v[names[i]]]]

\* githubAuth.ts getAllStoredTokens (lines 68-83); failAt = k: the call made
\* for the k-th username (secretStorage.get, or globalState.update in
\* unregisterToken) throws, 0: none does
GetAllStoredTokens ==
  /\ sw.pc = "idle"
  /\ ops < MaxVaultOps
  /\ ops' = ops + 1
  /\ \E failAt \in 0..Len(registry) :
       LET seen == IF failAt = 0 THEN registry ELSE SubSeq(registry, 1, failAt - 1)
           rest == IF failAt = 0 THEN <<>> ELSE SubSeq(registry, failAt, Len(registry))
           names == healedRegistry(seen, vault)
       IN /\ registry' = names \o rest
          /\ cmd' = [Command("listAll", IF failAt = 0 THEN "ok" ELSE "error", "", NoToken,
                             NoSession, NoProfiles, failAt # 0)
                       EXCEPT !.tokens = IF failAt = 0 THEN storedTokens(names, vault)
                                         ELSE <<>>]
  /\ UNCHANGED <<accounts, vault, localId, cred, isRepo, remoteUrl, sw, auto, disk, tasks, host>>

\* ------------------------------------------------------------ GitHub API calls
\* how the exchange of a fetch goes: fetch rejects, the response is ok, the
\* status is 404, the status is another error, the response is ok but
\* response.json() rejects
HttpAnswers == {"neterr", "ok", "notFound", "error", "badBody"}

\* the lists GET /user/emails answers
EmailLists == { p.emails : p \in Profiles }

Returned(value) == [outcome |-> "returned", value |-> value]

Raised == [outcome |-> "raised", value |-> <<>>]

\* getGitHubUser: every failure is rethrown as 'Failed to fetch GitHub user'
getGitHubUser(answer, profile) == IF answer = "ok" THEN Returned(profile) ELSE Raised

\* validateGitHubToken: no try block
validateGitHubToken(answer, profile) == IF answer = "ok" THEN Returned(profile) ELSE Raised

\* getGitHubEmails that returns [] for 404 only and raises otherwise
getGitHubEmailsRaising(answer, emails) ==
  IF answer = "ok" THEN Returned(emails)
  ELSE IF answer = "notFound" THEN Returned(<<>>) ELSE Raised

\* getGitHubEmails: [] for 404, and [] from the catch block for the rest
getGitHubEmails(answer, emails) ==
  IF answer = "ok" THEN Returned(emails) ELSE Returned(<<>>)

\* checkRepoAccess: response.ok, the body is not read; false from the catch block
checkRepoAccess(answer) == Returned(answer \in {"ok", "badBody"})

\* checkCollaboratorAccess with its exchange: false when fetch or json() rejects
collaboratorAccess(answer, resp, username) ==
  IF answer = "ok" THEN Returned(checkCollaboratorAccess(resp, username))
  ELSE Returned(FALSE)

ApiCalled(op, answer, r) ==
  [Command(op, r.outcome, "", NoToken, NoSession, NoProfiles, FALSE)
     EXCEPT !.answer = answer, !.tokens = <<r.value>>]

GetGitHubUser ==
  /\ sw.pc = "idle"
  /\ ops < MaxOps
  /\ ops' = ops + 1
  /\ \E answer \in HttpAnswers, profile \in Profiles \ {NoProfile} :
       cmd' = ApiCalled("getUser", answer, getGitHubUser(answer, profile))
  /\ UNCHANGED <<accounts, vault, registry, localId, cred, isRepo, remoteUrl, sw, auto, disk, tasks, host>>

ValidateGitHubToken ==
  /\ sw.pc = "idle"
  /\ ops < MaxOps
  /\ ops' = ops + 1
  /\ \E answer \in HttpAnswers, profile \in Profiles \ {NoProfile} :
       cmd' = ApiCalled("validate", answer, validateGitHubToken(answer, profile))
  /\ UNCHANGED <<accounts, vault, registry, localId, cred, isRepo, remoteUrl, sw, auto, disk, tasks, host>>

GetGitHubEmails ==
  /\ sw.pc = "idle"
  /\ ops < MaxOps
  /\ ops' = ops + 1
  /\ \E answer \in HttpAnswers, emails \in EmailLists :
       cmd' = ApiCalled("getEmails", answer, getGitHubEmails(answer, emails))
  /\ UNCHANGED <<accounts, vault, registry, localId, cred, isRepo, remoteUrl, sw, auto, disk, tasks, host>>

CheckRepoAccess ==
  /\ sw.pc = "idle"
  /\ ops < MaxOps
  /\ ops' = ops + 1
  /\ \E answer \in HttpAnswers :
       cmd' = ApiCalled("checkRepoAccess", answer, checkRepoAccess(answer))
  /\ UNCHANGED <<accounts, vault, registry, localId, cred, isRepo, remoteUrl, sw, auto, disk, tasks, host>>

CheckCollaboratorAccess ==
  /\ sw.pc = "idle"
  /\ ops < MaxOps
  /\ ops' = ops + 1
  /\ \E answer \in HttpAnswers, resp \in ApiResponses, username \in Usernames :
       /\ (resp.status = "ok") = (answer \in {"ok", "badBody"})
       /\ resp.status = "neterr" <=> answer = "neterr"
       /\ cmd' = [ApiCalled("checkCollaboratorAccess", answer,
                            collaboratorAccess(answer, resp, username))
                    EXCEPT !.username = username]
  /\ UNCHANGED <<accounts, vault, registry, localId, cred, isRepo, remoteUrl, sw, auto, disk, tasks, host>>

\* -------------------------------------------------------- the accounts file
\* the two account-manager modules of the repository: the one that keeps the
\* ignore entry in .vscode/.gitignore (part_005 lines 1-205) and the one that
\* keeps it in the root .gitignore and backs up a corrupted file (lines 207-422)
Modules == {"vscodeIgnore", "rootIgnore"}

\* the raw accounts file: a JSON list (held by the variable accounts), no
\* file, text that JSON.parse rejects, a JSON value that is not a list
Forms == {"list", "missing", "corrupt", "notList"}

\* entries a hand-edited accounts file may hold besides well-formed ones
FileEntries ==
  { [label |-> "A", name |-> "A", email |-> "a@x.com", username |-> "a",
     accountId |-> "ida", sessionId |-> "s1", authenticated |-> FALSE],
    [label |-> "L", name |-> "L", email |-> "l@x.com", username |-> "",
     accountId |-> "", sessionId |-> "", authenticated |-> FALSE],
    [label |-> "L", name |-> "L", email |-> "", username |-> "",
     accountId |-> "", sessionId |-> "", authenticated |-> FALSE],
    [label |-> "", name |-> "L", email |-> "l@x.com", username |-> "",
     accountId |-> "", sessionId |-> "", authenticated |-> FALSE],
    [label |-> "L", name |-> "", email |-> "l@x.com", username |-> "",
     accountId |-> "", sessionId |-> "", authenticated |-> FALSE] }

RECURSIVE FileListsOfLen(_)
FileListsOfLen(n) ==
  IF n = 0 THEN { <<>> }
  ELSE { Append(l, e) : l \in FileListsOfLen(n - 1), e \in FileEntries }

FileLists == UNION { FileListsOfLen(n) : n \in 0..MaxAccounts }

\* the lines a .gitignore file may hold before the first save
GitignoreFiles ==
  { <<>>, <<"node_modules">>, <<"**/github-accounts.json">>, <<"github-accounts.json">> }

\* the validation of loadAccounts that looks at label only
entryInvalidLabelOnly(account) == account.label = ""

\* !account.label || !account.name || !account.email
entryInvalid(account) == account.label = "" \/ account.name = "" \/ account.email = ""

\* loadAccounts on a file that could be read or is missing: what it returns
\* or throws, and whether it copies the file to github-accounts.json.backup
loadAccounts(module, form, list) ==
  IF form = "missing"
    THEN [outcome |-> "ok", accounts |-> <<>>, backup |-> FALSE]
  ELSE IF form = "corrupt"
    THEN IF module = "rootIgnore"
           THEN [outcome |-> "ok", accounts |-> <<>>, backup |-> TRUE]
           ELSE [outcome |-> "error:syntax", accounts |-> <<>>, backup |-> FALSE]
  ELSE IF form = "notList" \/ \E i \in 1..Len(list) : entryInvalid(list[i])
    THEN [outcome |-> "error:format", accounts |-> <<>>, backup |-> FALSE]
  ELSE [outcome |-> "ok", accounts |-> list, backup |-> FALSE]

\* loadAccounts (part_005 lines 118-147 and 321-364); fault "read": readFile
\* throws something other than FileNotFound, "backup": fs.copy throws
LoadAccounts ==
  /\ sw.pc = "idle"
  /\ ops < MaxFileOps
  /\ ops' = ops + 1
  /\ \E fault \in {"none", "read", "backup"} :
       LET r == loadAccounts(disk.module, disk.form, accounts)
           done(outcome, list) ==
             [Command("load", outcome, "", NoToken, NoSession, NoProfiles, fault # "none")
                EXCEPT !.tokens = list]
       IN /\ fault = "read" => disk.form # "missing"
          /\ fault = "backup" => r.backup
          /\ IF fault = "read"
               THEN cmd' = done("error:read", <<>>) /\ UNCHANGED disk
               ELSE /\ cmd' = done(r.outcome, r.accounts)
                    /\ disk' = IF r.backup /\ fault = "none"
                                 THEN [disk EXCEPT !.backup = disk.form]
                                 ELSE disk
  /\ UNCHANGED <<accounts, vault, registry, localId, cred, isRepo, remoteUrl, sw, auto, tasks, host>>

\* the line ensureGitignore writes
ignoreEntry(module) ==
  IF module = "rootIgnore" THEN "**/github-accounts.json" ELSE "github-accounts.json"

\* lines.some(...): the entry is there in one of the forms the module knows
entryExists(module, lines) ==
  \E i \in 1..Len(lines) :
    \/ lines[i] \in {"github-accounts.json", "/github-accounts.json"}
    \/ module = "rootIgnore"
         /\ lines[i] \in {".vscode/github-accounts.json", "**/github-accounts.json"}
    \/ /\ lines[i] = "# GitShift"
       /\ i < Len(lines)
       /\ lines[i + 1] = ignoreEntry(module)

\* the content ensureGitignore writes when the entry is not there
withEntry(module, lines) ==
  (IF Len(lines) > 0 THEN Append(lines, "") ELSE lines)
    \o <<"# GitShift personal account configuration", ignoreEntry(module)>>

\* saveAccounts(list) (part_005 lines 152-168 and 369-385) with
\* ensureGitignore (lines 50-113 and 257-316); fault: the call that throws
SaveAccounts ==
  /\ sw.pc = "idle"
  /\ ops < MaxFileOps
  /\ ops' = ops + 1
  /\ \E list \in { <<>> } \cup { <<a>> : a \in AccountUniverse },
        fault \in {"none", "mkdir", "write", "ignoreMkdir", "ignoreRead", "ignoreWrite"} :
       LET read == IF fault = "ignoreRead" THEN <<>> ELSE disk.gitignore
           written == IF entryExists(disk.module, read) \/ fault = "ignoreWrite"
                        THEN disk.gitignore
                        ELSE withEntry(disk.module, read)
           done(outcome) == Command("save", outcome, "", NoToken, NoSession, NoProfiles,
                                    fault # "none")
       IN /\ fault = "ignoreMkdir" => disk.module = "vscodeIgnore"
          /\ fault = "ignoreWrite" => ~entryExists(disk.module, read)
          /\ IF fault \in {"mkdir", "write"}
               THEN /\ cmd' = done("error:" \o fault)
                    /\ UNCHANGED <<accounts, disk>>
             ELSE /\ accounts' = list
                  /\ IF fault = "ignoreMkdir"
                       THEN /\ disk' = [disk EXCEPT !.form = "list"]
                            /\ cmd' = done("error:ignore")
                       ELSE /\ disk' = [disk EXCEPT !.form = "list", !.gitignore = written]
                            /\ cmd' = done("ok")
  /\ UNCHANGED <<vault, registry, localId, cred, isRepo, remoteUrl, sw, auto, tasks, host>>

Next ==
  \/ SwitchToAccount
  \/ AutoActivateFirstAccountIfNeeded
  \/ AutoActivateFirstAccount
  \/ VaultGet
  \/ Recover
  \/ IsRepoAndAccess
  \/ Prompt
  \/ SetGitUser
  \/ FlagLoad
  \/ FlagSave
  \/ ConfigureGitCredentials
  \/ UpdateRemoteUrl
  \/ NoTokenLoad
  \/ NoTokenSave
  \/ PostSwitch
  \/ Return

Spec == Init /\ [][Next]_vars

\* the initial states of the specifications of the account-store and vault
\* commands, which read neither the repository nor its remote nor the git identity
InitStore == Init /\ ~isRepo /\ localId = [name |-> "", email |-> ""]

\* the commands that add to and rewrite the accounts file
NextStore ==
  \/ Import
  \/ ImportAnother
  \/ AddToken
  \/ SignInWithGitHub
  \/ LinkAccount

SpecStore == InitStore /\ [][NextStore]_vars

\* the commands that derive an account email from a token, on a store of at
\* most one record and a vault that holds at most the token of user a
InitEmail == InitStore /\ Len(accounts) <= 1 /\ vault["b"] = NoToken

NextEmail ==
  \/ Import
  \/ ImportAnother
  \/ AddToken
  \/ SignInWithGitHub

SpecEmail == InitEmail /\ [][NextEmail]_vars

\* ------------------------------------------------------- reordering the list
\* the entry JSON.stringify writes for undefined: null, an entry without fields
NullEntry == NoAccount

\* the indices the webview message may carry (0-based, as in the code)
ReorderIndices == -1 .. MaxAccounts

\* Array.prototype.splice: the 0-based position a start index stands for
spliceStart(len, i) ==
  IF i < 0 THEN (IF len + i < 0 THEN 0 ELSE len + i)
  ELSE IF i > len THEN len ELSE i

\* const [movedAccount] = accounts.splice(fromIndex, 1): undefined when
\* nothing is removed
movedAccount(list, fromIndex) ==
  LET start == spliceStart(Len(list), fromIndex)
  IN IF start < Len(list) THEN list[start + 1] ELSE NullEntry

afterRemoval(list, fromIndex) ==
  LET start == spliceStart(Len(list), fromIndex)
  IN IF start < Len(list)
       THEN SubSeq(list, 1, start) \o SubSeq(list, start + 2, Len(list))
       ELSE list

\* accounts.splice(toIndex, 0, movedAccount)
reordered(list, fromIndex, toIndex) ==
  LET rest == afterRemoval(list, fromIndex)
      start == spliceStart(Len(rest), toIndex)
  IN SubSeq(rest, 1, start) \o <<movedAccount(list, fromIndex)>>
       \o SubSeq(rest, start + 1, Len(rest))

\* part_003 _reorderAccounts(fromIndex, toIndex) (lines 576-594): load, two
\* splices, save; an error is shown and swallowed
ReorderAccounts ==
  /\ sw.pc = "idle"
  /\ ops < MaxOps
  /\ ops' = ops + 1
  /\ \E fromIndex \in ReorderIndices, toIndex \in ReorderIndices,
        fault \in {"none", "load", "save"} :
       /\ accounts' = IF fault = "none" THEN reordered(accounts, fromIndex, toIndex)
                      ELSE accounts
       /\ cmd' = Command("reorder", IF fault = "none" THEN "saved" ELSE "error:" \o fault,
                         "", NoToken, NoSession, NoProfiles, fault # "none")
  /\ UNCHANGED <<vault, registry, localId, cred, isRepo, remoteUrl, sw, auto, disk, tasks, host>>

\* the operations that write the accounts file, one after another
NextWriters ==
  \/ Import
  \/ ImportAnother
  \/ AddToken
  \/ SignInWithGitHub
  \/ LinkAccount
  \/ ReorderAccounts
  \/ DeleteAccount

SpecWriters == InitStore /\ [][NextWriters]_vars

\* ------------------------------------------------------ the credential store
\* the github.com lines ~/.git-credentials may hold: https://<user>:<token>@github.com
CredentialLines == [user : Usernames, token : Tokens]

RECURSIVE CredentialFilesOfLen(_)
CredentialFilesOfLen(n) ==
  IF n = 0 THEN { <<>> }
  ELSE { Append(f, l) : f \in CredentialFilesOfLen(n - 1), l \in CredentialLines }

CredentialFiles == UNION { CredentialFilesOfLen(n) : n \in 0..MaxAccounts }

\* gitCredentials.ts configureGitCredentials(username, token) (lines 68-87):
\* git config --local credential.helper store, then
\* storeCredentialsInGitStore; an error of either is logged and swallowed
ConfigureCredentials ==
  /\ sw.pc = "idle"
  /\ ops < MaxOps
  /\ ops' = ops + 1
  /\ \E username \in Usernames, token \in Tokens, r \in {"ok", "configFail", "storeFail"} :
       /\ cred' = IF r = "ok" THEN storeCredentialsInGitStore(cred, username, token)
                  ELSE cred
       /\ cmd' = Command("configure", r, username, token, NoSession, NoProfiles, r # "ok")
  /\ UNCHANGED <<accounts, vault, registry, localId, isRepo, remoteUrl, sw, auto, disk, tasks, host>>

\* a repository without a remote and any credential file
InitCredentials ==
  /\ accounts = <<>>
  /\ vault = [a |-> NoToken, b |-> NoToken]
  /\ registry = <<>>
  /\ localId = [name |-> "", email |-> ""]
  /\ cred \in CredentialFiles
  /\ isRepo = TRUE
  /\ remoteUrl = <<>>
  /\ sw = Idle
  /\ auto = NoAuto
  /\ ops = 0
  /\ cmd = NoCmd
  /\ disk = WellFormedDisk
  /\ tasks = NoTasks
  /\ host = NoHost

NextCredentials == ConfigureCredentials

SpecCredentials == InitCredentials /\ [][NextCredentials]_vars

\* ------------------------------------------- automatic import, run after run
\* the token another window of the host stores for a username
tokenOf(username) == IF username = "a" THEN "ta" ELSE "tb"

\* githubAuth.ts storeGitHubToken called in another workspace between two
\* runs: SecretStorage and globalState are shared by all workspaces
ExternalTokenStored ==
  /\ host.runs > 0
  /\ \E u \in Usernames :
       /\ vault[u] = NoToken
       /\ vault' = [vault EXCEPT ![u] = tokenOf(u)]
       /\ registry' = registerToken(registry, u)
  /\ UNCHANGED <<accounts, localId, cred, isRepo, remoteUrl, sw, auto, ops, cmd, disk, tasks, host>>

\* activate (line 1364): autoImportGitHubAccounts runs at every activation of
\* the extension in the workspace; the host answers as it did before
AutoImportRun ==
  /\ host.runs < MaxImportRuns
  /\ \E fault \in {"none", "load", "store", "save", "flag"} :
       ImportRun(host.session, host.profiles, fault)
  /\ UNCHANGED <<localId, cred, isRepo, remoteUrl, sw, auto, ops, disk, tasks>>

\* the profiles of the runs: GET /user/emails answers no list
RunProfiles == { f \in [Tokens -> Profiles] : \A t \in Tokens : f[t].emails = <<>> }

\* a workspace that has not run the import, with at most one record, at most
\* the token of user a in the vault, and a host with its session and profiles
InitRuns ==
  /\ accounts \in { s \in Stores : Len(s) <= 1 }
  /\ vault \in { [a |-> ta, b |-> NoToken] : ta \in {NoToken, "ta"} }
  /\ registry = RegistryOf(vault)
  /\ localId = [name |-> "", email |-> ""]
  /\ cred = <<>>
  /\ isRepo = FALSE
  /\ remoteUrl = <<>>
  /\ sw = Idle
  /\ auto = NoAuto
  /\ ops = 0
  /\ cmd = NoCmd
  /\ disk = WellFormedDisk
  /\ tasks = NoTasks
  /\ host \in { [NoHost EXCEPT !.session = s, !.profiles = f] :
                  s \in Sessions, f \in RunProfiles }

NextRuns ==
  \/ AutoImportRun
  \/ ExternalTokenStored

SpecRuns == InitRuns /\ [][NextRuns]_vars

\* the token vault on its own
NextVault ==
  \/ StoreGitHubToken
  \/ DeleteGitHubToken

SpecVault == InitStore /\ [][NextVault]_vars

\* the token vault with the commands that read it and that delete accounts
NextTokens ==
  \/ StoreGitHubToken
  \/ DeleteGitHubToken
  \/ DeleteAccountToken
  \/ DeleteAccount
  \/ GetAllStoredTokens

SpecTokens == InitStore /\ [][NextTokens]_vars

\* the wrappers of the GitHub REST calls on their own
NextApi ==
  \/ GetGitHubUser
  \/ ValidateGitHubToken
  \/ GetGitHubEmails
  \/ CheckRepoAccess
  \/ CheckCollaboratorAccess

SpecApi == InitStore /\ [][NextApi]_vars

\* the accounts file as a user or another program may have left it
InitFile ==
  /\ accounts \in FileLists
  /\ disk \in [module : Modules, form : Forms, backup : {"none"}, gitignore : GitignoreFiles]
  /\ disk.form # "list" => accounts = <<>>
  /\ vault = [a |-> NoToken, b |-> NoToken]
  /\ registry = <<>>
  /\ localId = [name |-> "", email |-> ""]
  /\ cred = <<>>
  /\ isRepo = FALSE
  /\ remoteUrl = <<>>
  /\ sw = Idle
  /\ auto = NoAuto
  /\ ops = 0
  /\ cmd = NoCmd
  /\ tasks = NoTasks
  /\ host = NoHost

NextFile ==
  \/ LoadAccounts
  \/ SaveAccounts

SpecFile == InitFile /\ [][NextFile]_vars

\* ------------------------------------------------ switching twice in a row
\* the log events of a call that threw
FailureEvents ==
  {"fail:vaultGet", "fail:vaultStore", "fail:accessCheck", "fail:gitConfig",
   "fail:load", "fail:save", "fail:credentials", "fail:remoteUrl"}

\* the record of the store the user picks again: the one the first invocation
\* was given, as the store holds it now
sameRecord(a, b) == a.name = b.name /\ a.email = b.email /\ a.username = b.username

\* gitshift.switchToAccount invoked a second time, for the same record, once
\* the first invocation has resolved; cmd.pre keeps the state the first
\* invocation left behind and the log goes on after the mark "again"; the
\* second invocation is followed after a first one in which no call failed
SwitchToAccountAgain ==
  /\ sw.pc = "done"
  /\ sw.caller = "user"
  /\ cmd.op = ""
  /\ \A k \in 1..Len(sw.log) : sw.log[k] \notin FailureEvents
  /\ \E i \in 1..Len(accounts) :
       /\ sameRecord(accounts[i], sw.account)
       /\ sw' = [Idle EXCEPT !.pc = "vaultGet", !.account = accounts[i], !.caller = "user",
                             !.pre = Globals, !.log = Append(sw.log, "again")]
  /\ cmd' = Command("switchAgain", sw.outcome, sw.account.username, NoToken,
                    NoSession, NoProfiles, FALSE)
  /\ UNCHANGED <<accounts, vault, registry, localId, cred, isRepo, remoteUrl, auto, ops, disk, tasks, host>>

NextTwice ==
  \/ SwitchToAccount
  \/ SwitchToAccountAgain
  \/ VaultGet
  \/ Recover
  \/ IsRepoAndAccess
  \/ Prompt
  \/ SetGitUser
  \/ FlagLoad
  \/ FlagSave
  \/ ConfigureGitCredentials
  \/ UpdateRemoteUrl
  \/ NoTokenLoad
  \/ NoTokenSave
  \/ PostSwitch

SpecTwice == Init /\ [][NextTwice]_vars

\* ------------------------------------------------- handlers that interleave
\* Every handler is an async function: between two awaits of one invocation
\* the host runs the steps of the others. A task is one invocation in flight:
\* op: the handler; pc: the await it stands before; account, token: the
\* arguments of a switch; loaded: the list loadAccounts returned to it;
\* profile: the GitHub user of the pasted token.
Task(op, pc, account, token, loaded, profile) ==
  [op |-> op, pc |-> pc, account |-> account, token |-> token, loaded |-> loaded,
   profile |-> profile]

Launched(t) == tasks' = Append(tasks, t)

At(k, op, pc) == tasks[k].op = op /\ tasks[k].pc = pc

\* handleSwitchToAccount (lines 1460-1681) for a record whose token is in the
\* vault (lines 1466-1473) or that has no username (line 1637), in a
\* repository without a GitHub remote: no access check, no prompt, no URL
\* rewrite; the invocation stands before setGitUser
SwitchBegin ==
  /\ Len(tasks) < MaxTasks
  /\ \E i \in 1..Len(accounts) :
       LET account == accounts[i]
       IN /\ hasUsername(account) => secretsGet(vault, account.username) # NoToken
          /\ Launched(Task("switch", "setName", account,
                          IF hasUsername(account) THEN secretsGet(vault, account.username)
                          ELSE NoToken,
                          <<>>, NoProfile))
  /\ UNCHANGED <<accounts, vault, registry, localId, cred, isRepo, remoteUrl, sw, auto, ops, cmd, disk, host>>

\* gitManager.ts line 70: await executeGitCommand(`git config user.name ...`)
SwitchSetName ==
  /\ \E k \in 1..Len(tasks) :
       /\ At(k, "switch", "setName")
       /\ localId' = [localId EXCEPT !.name = tasks[k].account.name]
       /\ tasks' = [tasks EXCEPT ![k].pc = "setEmail"]
  /\ UNCHANGED <<accounts, vault, registry, cred, isRepo, remoteUrl, sw, auto, ops, cmd, disk, host>>

\* gitManager.ts line 71: await executeGitCommand(`git config user.email ...`),
\* then part_000 lines 1539-1541 or, without a username, the end (line 1640)
SwitchSetEmail ==
  /\ \E k \in 1..Len(tasks) :
       /\ At(k, "switch", "setEmail")
       /\ localId' = [localId EXCEPT !.email = tasks[k].account.email]
       /\ tasks' = [tasks EXCEPT ![k].pc =
                      IF ~hasUsername(tasks[k].account) THEN "done"
                      ELSE IF tasks[k].account.authenticated THEN "cred"
                      ELSE "flagLoad"]
  /\ UNCHANGED <<accounts, vault, registry, cred, isRepo, remoteUrl, sw, auto, ops, cmd, disk, host>>

\* lines 1539-1541: accounts = await loadAccounts()
SwitchFlagLoad ==
  /\ \E k \in 1..Len(tasks) :
       /\ At(k, "switch", "flagLoad")
       /\ tasks' = [tasks EXCEPT ![k].pc = "flagSave", ![k].loaded = accounts]
  /\ UNCHANGED <<accounts, vault, registry, localId, cred, isRepo, remoteUrl, sw, auto, ops, cmd, disk, host>>

\* lines 1542-1546: findIndex by username, authenticated = true, saveAccounts
SwitchFlagSave ==
  /\ \E k \in 1..Len(tasks) :
       /\ At(k, "switch", "flagSave")
       /\ LET idx == findIndexByUsername(tasks[k].loaded, tasks[k].account.username)
          IN accounts' = IF idx = 0 THEN accounts
                         ELSE setAuthenticated(tasks[k].loaded, idx, TRUE)
       /\ tasks' = [tasks EXCEPT ![k].pc = "cred", ![k].loaded = <<>>]
  /\ UNCHANGED <<vault, registry, localId, cred, isRepo, remoteUrl, sw, auto, ops, cmd, disk, host>>

\* line 1550: configureGitCredentials; lines 1552-1567 write nothing without a
\* GitHub remote
SwitchCredentials ==
  /\ \E k \in 1..Len(tasks) :
       /\ At(k, "switch", "cred")
       /\ cred' = storeCredentialsInGitStore(cred, tasks[k].account.username, tasks[k].token)
       /\ tasks' = [tasks EXCEPT ![k].pc = "done"]
  /\ UNCHANGED <<accounts, vault, registry, localId, isRepo, remoteUrl, sw, auto, ops, cmd, disk, host>>

\* gitshift.addToken lines 337-358: the token is validated and stored, then
\* accounts = await loadAccounts(); the invocation stands before getGitHubEmails
AddTokenLoad ==
  /\ Len(tasks) < MaxTasks
  /\ \E token \in Tokens, p \in Profiles :
       /\ p # NoProfile
       /\ primaryEmail(p) # ""
       /\ vault' = [vault EXCEPT ![p.login] = token]
       /\ registry' = registerToken(registry, p.login)
       /\ Launched(Task("addToken", "save", NoAccount, token, accounts, p))
  /\ UNCHANGED <<accounts, localId, cred, isRepo, remoteUrl, sw, auto, ops, cmd, disk, host>>

\* gitshift.addToken lines 359-386: the upsert into the list loaded before the
\* await, then saveAccounts
AddTokenSave ==
  /\ \E k \in 1..Len(tasks) :
       /\ At(k, "addToken", "save")
       /\ accounts' = upsertTokenAccount(tasks[k].loaded, tasks[k].profile)
       /\ tasks' = [tasks EXCEPT ![k].pc = "done", ![k].loaded = <<>>]
  /\ UNCHANGED <<vault, registry, localId, cred, isRepo, remoteUrl, sw, auto, ops, cmd, disk, host>>

\* validateAccountAuthenticationStates line 2073: accounts = await loadAccounts();
\* started by activate (lines 57 and 1366), not by a user action; a failing
\* load ends the pass in the catch of line 2144
ValidateLoad ==
  /\ Len(tasks) < MaxTasks
  /\ \E ok \in BOOLEAN :
       Launched(Task("validate", IF ok THEN "save" ELSE "done", NoAccount, NoToken,
                     IF ok THEN accounts ELSE <<>>, NoProfile))
  /\ UNCHANGED <<accounts, vault, registry, localId, cred, isRepo, remoteUrl, sw, auto, ops, cmd, disk, host>>

\* how GET /user goes for the token of each username ("": no request is made)
ValidationAnswers == [Usernames -> {"", "ok", "error", "neterr"}]

\* lines 2077-2094: the request is made for a record with a username whose
\* token is in the vault
asked(list, v) ==
  { u \in Usernames : /\ secretsGet(v, u) # NoToken
                      /\ \E i \in 1..Len(list) : list[i].username = u }

\* lines 2094-2103: the usernames for whose token validateGitHubToken raises
invalidUsernames(answers) ==
  { u \in Usernames : /\ answers[u] # ""
                      /\ validateGitHubToken(answers[u], NoProfile).outcome = "raised" }

\* validated that looks at the vault only
validatedByVaultOnly(list, v, invalid) ==
  [i \in 1..Len(list) |->
     IF ~hasUsername(list[i]) THEN list[i]
     ELSE [list[i] EXCEPT !.authenticated = secretsGet(v, list[i].username) # NoToken]]

\* lines 2077-2116: authenticated is true for a record whose token exists and
\* is accepted by the API, false for the other records with a username
validated(list, v, invalid) ==
  [i \in 1..Len(list) |->
     IF ~hasUsername(list[i]) THEN list[i]
     ELSE [list[i] EXCEPT !.authenticated =
             secretsGet(v, list[i].username) # NoToken /\ list[i].username \notin invalid]]

\* the usernames whose token validateGitHubToken rejects: line 2110 deletes it
rejected(list, v, invalid) ==
  { u \in invalid : /\ secretsGet(v, u) # NoToken
                    /\ \E i \in 1..Len(list) : list[i].username = u }

\* lines 2077-2144: the checks of every record against the vault and the API
\* (answers: how GET /user goes for each token), deleteGitHubToken for a
\* token whose check raised (del: how that call goes, its error is logged and
\* swallowed), and saveAccounts of the list loaded before these awaits when a
\* flag has changed; fault "get": secrets.get throws for the first record,
\* fault "save": saveAccounts throws; both land in the catch of line 2144
ValidateSave ==
  /\ \E k \in 1..Len(tasks), answers \in ValidationAnswers,
        fault \in {"none", "get", "save"}, del \in {"ok", "secretFail", "registerFail"} :
       /\ At(k, "validate", "save")
       /\ LET invalid == invalidUsernames(answers)
              list == validated(tasks[k].loaded, vault, invalid)
              gone == IF fault = "get" THEN {} ELSE rejected(tasks[k].loaded, vault, invalid)
              needsUpdate == list # tasks[k].loaded
              outcome == CASE fault = "get" -> "error:get"
                           [] fault = "save" -> "error:save"
                           [] needsUpdate -> "saved"
                           [] OTHER -> "unchanged"
          IN /\ \A u \in Usernames :
                  answers[u] # "" <=> (fault # "get" /\ u \in asked(tasks[k].loaded, vault))
             /\ fault = "get" => del = "ok"
             /\ fault = "save" => needsUpdate
             /\ gone = {} => del = "ok"
             /\ accounts' = IF outcome = "saved" THEN list ELSE accounts
             /\ vault' = [u \in Usernames |->
                            IF u \in gone /\ del # "secretFail" THEN NoToken ELSE vault[u]]
             /\ registry' = IF del = "ok" THEN SelectSeq(registry, LAMBDA u : u \notin gone)
                            ELSE registry
             /\ cmd' = [Command("validate", outcome, "", NoToken, NoSession, NoProfiles,
                                fault # "none" \/ del # "ok")
                          EXCEPT !.answers = answers, !.loaded = tasks[k].loaded]
       /\ tasks' = [tasks EXCEPT ![k].pc = "done", ![k].loaded = <<>>]
  /\ UNCHANGED <<localId, cred, isRepo, remoteUrl, sw, auto, ops, disk, host>>

\* background validation alone: passes that follow or overlap each other
NextValidate ==
  \/ ValidateLoad
  \/ ValidateSave

\* a repository without a GitHub remote, no identity configured
InitConcurrent ==
  /\ Init
  /\ isRepo
  /\ remoteUrl = <<>>
  /\ localId = [name |-> "", email |-> ""]

NextConcurrent ==
  \/ SwitchBegin
  \/ SwitchSetName
  \/ SwitchSetEmail
  \/ SwitchFlagLoad
  \/ SwitchFlagSave
  \/ SwitchCredentials
  \/ AddTokenLoad
  \/ AddTokenSave
  \/ ValidateLoad
  \/ ValidateSave

SpecConcurrent == InitConcurrent /\ [][NextConcurrent]_vars

SpecValidate == InitConcurrent /\ [][NextValidate]_vars

\* ------------------------------------------- the registry under interleaving
\* registerToken and unregisterToken (githubAuth.ts lines 45-62) read the
\* registry with `await getTokenRegistry()` and write it with
\* globalState.update: the read and the write of one call are separated by
\* the await, where the continuation of another call may run. The list a call
\* holds after the await is either the value it read (globalState.get gave a
\* copy, or the default [] of line 39 for a key never written) or the list as
\* it is now (globalState.get gave the stored array itself and the other call
\* pushed onto it): registryView chooses by `shared`.
registryView(read, shared) == IF shared THEN registry ELSE read

OfUsername(username) == [NoAccount EXCEPT !.username = username]

\* storeGitHubToken(username, token) lines 85-90 up to the await of line 47:
\* the secret is stored, registerToken has read the registry
StoreTokenRead ==
  /\ Len(tasks) < MaxTasks
  /\ \E username \in Usernames :
       /\ vault' = [vault EXCEPT ![username] = tokenOf(username)]
       /\ Launched(Task("store", "update", OfUsername(username), tokenOf(username),
                        registry, NoProfile))
  /\ UNCHANGED <<accounts, registry, localId, cred, isRepo, remoteUrl, sw, auto, ops, cmd, disk, host>>

\* registerToken lines 48-51: includes, push, globalState.update
StoreTokenUpdate ==
  /\ \E k \in 1..Len(tasks), shared \in BOOLEAN :
       /\ At(k, "store", "update")
       /\ LET view == registryView(tasks[k].loaded, shared)
              username == tasks[k].account.username
          IN registry' = IF \E i \in 1..Len(view) : view[i] = username
                         THEN registry
                         ELSE registerToken(view, username)
       /\ tasks' = [tasks EXCEPT ![k].pc = "done", ![k].loaded = <<>>]
  /\ UNCHANGED <<accounts, vault, localId, cred, isRepo, remoteUrl, sw, auto, ops, cmd, disk, host>>

\* getAllStoredTokens lines 72-80 for a registered username without secret,
\* up to the await of line 59: unregisterToken has read the registry
SelfHealRead ==
  /\ Len(tasks) < MaxTasks
  /\ \E i \in 1..Len(registry) :
       /\ vault[registry[i]] = NoToken
       /\ Launched(Task("selfHeal", "update", OfUsername(registry[i]), NoToken,
                        registry, NoProfile))
  /\ UNCHANGED <<accounts, vault, registry, localId, cred, isRepo, remoteUrl, sw, auto, ops, cmd, disk, host>>

\* unregisterToken lines 60-61: filter, globalState.update
SelfHealUpdate ==
  /\ \E k \in 1..Len(tasks), shared \in BOOLEAN :
       /\ At(k, "selfHeal", "update")
       /\ registry' = unregisterToken(registryView(tasks[k].loaded, shared),
                                      tasks[k].account.username)
       /\ tasks' = [tasks EXCEPT ![k].pc = "done", ![k].loaded = <<>>]
  /\ UNCHANGED <<accounts, vault, localId, cred, isRepo, remoteUrl, sw, auto, ops, cmd, disk, host>>

\* the registries a vault may come with: every username with a secret, and
\* possibly usernames whose secret was deleted without unregistering
RegistriesOf(v) ==
  { r \in { <<>>, <<"a">>, <<"b">>, <<"a", "b">>, <<"b", "a">> } :
      \A u \in Usernames : v[u] # NoToken => \E i \in 1..Len(r) : r[i] = u }

InitRegistry ==
  /\ accounts \in { s \in Stores : Len(s) <= 1 }
  /\ vault \in { [a |-> ta, b |-> tb] : ta \in {NoToken, "ta"}, tb \in {NoToken, "tb"} }
  /\ registry \in RegistriesOf(vault)
  /\ localId = [name |-> "", email |-> ""]
  /\ cred = <<>>
  /\ isRepo = FALSE
  /\ remoteUrl = <<>>
  /\ sw = Idle
  /\ auto = NoAuto
  /\ ops = 0
  /\ cmd = NoCmd
  /\ disk = WellFormedDisk
  /\ tasks = NoTasks
  /\ host = NoHost

NextRegistry ==
  \/ StoreTokenRead
  \/ StoreTokenUpdate
  \/ SelfHealRead
  \/ SelfHealUpdate

SpecRegistry == InitRegistry /\ [][NextRegistry]_vars

\* ================================================================== claims
InLog(e) == \E i \in 1..Len(sw.log) : sw.log[i] = e

IdentityOf(account) == [name |-> account.name, email |-> account.email]

AnyFailure == \E i \in 1..Len(sw.log) : sw.log[i] \in FailureEvents

\* the messages that tell the user the switch took place ("Switched to ...")
SuccessReports ==
  {"report:Switched", "report:SwitchedNoAccess", "report:SwitchedCredentialsFailed",
   "report:SwitchedInitRepo", "report:SwitchedCompleteSetup", "report:SwitchedLocalOnly"}

StoredFlagIs(username, value) ==
  \A i \in 1..Len(accounts) : accounts[i].username = username => accounts[i].authenticated = value

\* C1: a finished switchTo on an account with a username, for which the vault
\* lookup found nothing and no session token was recovered, ended with the
\* no-token prompt, left LocalIdentity as it was before the call and left the
\* stored record of that username with authenticated = false.
C1_NoTokenNoIdentityFlip ==
  ( /\ sw.pc = "done"
    /\ sw.account.username # ""
    /\ InLog("vaultGet")
    /\ sw.pre.vault[sw.account.username] = NoToken
    /\ sw.accessToken = NoToken )
  => /\ sw.outcome = "noToken"
     /\ localId = sw.pre.localId
     /\ StoredFlagIs(sw.account.username, FALSE)

\* C2: whenever the last thing an explicit switchTo did was to show a
\* "Switched to ..." message, LocalIdentity is (account.name, account.email).
C2_SuccessReportImpliesIdentity ==
  ( /\ sw.caller = "user"
    /\ Len(sw.log) > 0
    /\ sw.log[Len(sw.log)] \in SuccessReports )
  => localId = IdentityOf(sw.account)

\* C3: in a switchTo on an account with a username, as long as no token has
\* been resolved, LocalIdentity, the accounts file, the credential store and
\* the remote URL are as they were before the call and no write of them has
\* been made; and the access check, when made, follows the token resolution.
C3_WritesOnlyAfterToken ==
  ( /\ sw.pc # "idle"
    /\ sw.account.username # ""
    /\ ~InLog("tokenResolved") )
  => /\ localId = sw.pre.localId
     /\ cred = sw.pre.cred
     /\ remoteUrl = sw.pre.remoteUrl
     /\ ~InLog("setGitUser") /\ ~InLog("save:authenticated=true")
     /\ ~InLog("credWrite") /\ ~InLog("urlRewrite")
     /\ ~InLog("accessCheck") /\ ~InLog("fail:accessCheck")

\* C4 as stated: after a switchTo whose "no collaborator access" warning was
\* dismissed, LocalIdentity, the accounts file, the vault with its registry,
\* the credential store and the remote URL are what they were before the call.
C4_CancelNoMutation ==
  (sw.pc = "done" /\ InLog("prompt:dismissed")) => Globals = sw.pre

\* C4 as amended: after a switchTo whose "no collaborator access" warning was
\* dismissed, LocalIdentity, the accounts file, the credential store and the
\* remote URL are what they were before the call; the vault and its registry
\* are too, unless the token was recovered from the session, in which case
\* they differ by exactly that token stored and registered under the username.
C4_CancelKeepsAllButRecoveredToken ==
  (sw.pc = "done" /\ InLog("prompt:dismissed")) =>
    /\ localId = sw.pre.localId
    /\ accounts = sw.pre.accounts
    /\ cred = sw.pre.cred
    /\ remoteUrl = sw.pre.remoteUrl
    /\ \/ (vault = sw.pre.vault /\ registry = sw.pre.registry)
       \/ /\ InLog("vaultStore")
          /\ sw.pre.vault[sw.account.username] = NoToken
          /\ vault = [sw.pre.vault EXCEPT ![sw.account.username] = sw.accessToken]
          /\ registry = registerToken(sw.pre.registry, sw.account.username)

C4_Witness ==
  /\ sw.pc = "done"
  /\ InLog("prompt:dismissed")
  /\ InLog("vaultStore")
  /\ vault # sw.pre.vault
  /\ localId = sw.pre.localId

LaterStepFailed ==
  InLog("fail:accessCheck") \/ InLog("fail:save") \/ InLog("fail:credentials")
    \/ InLog("fail:remoteUrl")
    \/ \E i, j \in 1..Len(sw.log) : i < j /\ sw.log[i] = "tokenResolved" /\ sw.log[j] = "fail:load"

\* C5 as stated: a finished switchTo that resolved a token and in which the
\* access check, the accounts-file update, the credential configuration or the
\* remote rewrite failed (the git config writes themselves working) ends with
\* LocalIdentity = (account.name, account.email).
C5_FailureStillSetsIdentity ==
  ( /\ sw.pc = "done"
    /\ InLog("tokenResolved")
    /\ LaterStepFailed
    /\ ~InLog("fail:gitConfig") )
  => localId = IdentityOf(sw.account)

\* C5 as amended: the same, for the switches that the user did not abort at
\* the "no collaborator access" warning (which a failed access check raises
\* like a denied one).
C5_FailureStillSetsIdentityUnlessAborted ==
  ( /\ sw.pc = "done"
    /\ InLog("tokenResolved")
    /\ LaterStepFailed
    /\ ~InLog("fail:gitConfig")
    /\ ~InLog("prompt:dismissed") /\ ~InLog("prompt:SwitchAccount") )
  => localId = IdentityOf(sw.account)

C5_Witness ==
  /\ sw.pc = "done"
  /\ InLog("tokenResolved")
  /\ InLog("fail:save")
  /\ sw.outcome = "fallback"
  /\ localId = IdentityOf(sw.account)
  /\ localId # sw.pre.localId

\* C6: once switchTo has completed its success path, LocalIdentity is
\* (account.name, account.email) and every stored record with the account's
\* username has authenticated = true.
C6_SuccessSetsIdentityAndFlag ==
  (sw.pc \in {"post", "done"} /\ sw.outcome = "switched") =>
    /\ localId = IdentityOf(sw.account)
    /\ StoredFlagIs(sw.account.username, TRUE)
    /\ \E i \in 1..Len(accounts) : accounts[i].username = sw.account.username

C6_Witness ==
  /\ sw.pc = "done"
  /\ sw.outcome = "switched"
  /\ ~sw.account.authenticated
  /\ accounts # sw.pre.accounts
  /\ StoredFlagIs(sw.account.username, TRUE)

HasToken(url) == \E i \in 1..Len(url) : url[i] \in Tokens

CarriesUsername(url, username) ==
  StartsWith(url, <<"https://", username, "@", "github.com", "/">>)

C8_NoUsernameLocalOnly ==
  (sw.pc # "idle" /\ sw.account.username = "") =>
    /\ vault = sw.pre.vault /\ registry = sw.pre.registry
    /\ accounts = sw.pre.accounts
    /\ cred = sw.pre.cred
    /\ remoteUrl = sw.pre.remoteUrl
    /\ \A i \in 1..Len(sw.log) :
         sw.log[i] \in {"setGitUser", "fail:gitConfig", "fail:load",
                        "report:SwitchedLocalOnly", "error:FailedToSwitchAccount"}
    /\ sw.pc = "done" =>
         /\ sw.outcome \in {"localOnly", "failed"}
         /\ ~InLog("fail:gitConfig") => localId = IdentityOf(sw.account)

C8_Witness ==
  /\ sw.pc = "done"
  /\ sw.account.username = ""
  /\ sw.outcome = "localOnly"
  /\ isRepo /\ HostMatchingRemote(remoteUrl)
  /\ localId = IdentityOf(sw.account)
  /\ localId # sw.pre.localId

IdentityMatchedAtStart ==
  /\ auto.fn # ""
  /\ auto.pre.localId.name # "" /\ auto.pre.localId.email # ""
  /\ \E i \in 1..Len(auto.pre.accounts) :
       IdentityOf(auto.pre.accounts[i]) = auto.pre.localId

AutoSelected ==
  /\ auto.fn = "autoActivateFirstAccount" /\ auto.outcome = "switch"
  /\ sw.caller = "auto" /\ sw.pc = "vaultGet"

\* the remote of the repository parsed to (owner, repo)
AutoParsed == auto.pre.remoteUrl # <<>> /\ parseGitHubUrl(auto.pre.remoteUrl).ok

AutoOwner == parseGitHubUrl(auto.pre.remoteUrl).owner

\* record i of the store is a candidate whose token passed the live access check
Passes(i) ==
  /\ auto.pre.accounts[i].username # ""
  /\ auto.pre.vault[auto.pre.accounts[i].username] # NoToken
  /\ auto.access[auto.pre.vault[auto.pre.accounts[i].username]]

AutoIndices == 1..Len(auto.pre.accounts)

\* C11: with the remote parsed to (owner, repo), an authenticated candidate
\* whose username is the owner and whose access check passes is the selected
\* account, whatever other candidates pass and wherever it stands in the store.
C11_OwnerMatchingAuthenticatedSelected ==
  (AutoSelected /\ AutoParsed) =>
    \A i \in AutoIndices :
      ( /\ auto.pre.accounts[i].authenticated
        /\ <<auto.pre.accounts[i].username>> = AutoOwner
        /\ Passes(i) )
      => auto.chosen = auto.pre.accounts[i]

C11_Witness ==
  /\ AutoSelected /\ AutoParsed
  /\ Len(auto.pre.accounts) = 2
  /\ \A i \in AutoIndices : auto.pre.accounts[i].authenticated /\ Passes(i)
  /\ <<auto.pre.accounts[2].username>> = AutoOwner
  /\ auto.chosen = auto.pre.accounts[2]

\* C12: when some candidate passes the access check, the selected account is
\* a candidate that passes; it is a non-authenticated one only if no
\* authenticated candidate passes; and unless it is the owner-matching
\* candidate, no candidate of its partition that stands before it in the
\* store passes.
C12_AuthenticatedPartitionFirstThenStoreOrder ==
  (AutoSelected /\ AutoParsed /\ \E i \in AutoIndices : Passes(i)) =>
    \E c \in AutoIndices :
      /\ auto.chosen = auto.pre.accounts[c]
      /\ Passes(c)
      /\ ~auto.chosen.authenticated =>
           \A i \in AutoIndices : auto.pre.accounts[i].authenticated => ~Passes(i)
      /\ <<auto.chosen.username>> # AutoOwner =>
           \A j \in 1..(c - 1) :
             auto.pre.accounts[j].authenticated = auto.chosen.authenticated => ~Passes(j)

C12_Witness ==
  /\ AutoSelected /\ AutoParsed
  /\ Len(auto.pre.accounts) = 2
  /\ auto.pre.accounts[1].authenticated /\ ~Passes(1)
  /\ auto.pre.accounts[1].username # ""
  /\ ~auto.pre.accounts[2].authenticated /\ Passes(2)
  /\ auto.chosen = auto.pre.accounts[2]

\* C13: when no authenticated candidate passes the access check, a
\* non-authenticated candidate whose username is the owner and whose access
\* check passes is the selected account, even if another non-authenticated
\* candidate that passes stands before it in the store.
C13_OwnerPriorityAmongNonAuthenticated ==
  ( /\ AutoSelected /\ AutoParsed
    /\ \A i \in AutoIndices : auto.pre.accounts[i].authenticated => ~Passes(i) )
  => \A i \in AutoIndices :
       ( /\ ~auto.pre.accounts[i].authenticated
         /\ <<auto.pre.accounts[i].username>> = AutoOwner
         /\ Passes(i) )
       => auto.chosen = auto.pre.accounts[i]

\* C14: when no candidate passes the access check (or no check is made because
\* the repository has no remote that parses), the selected account is the
\* first record of the store with authenticated = true, or accounts[0] if no
\* record is authenticated.
C14_FallbackFirstAuthenticatedElseFirst ==
  (AutoSelected /\ ~(AutoParsed /\ \E i \in AutoIndices : Passes(i))) =>
    IF \E i \in AutoIndices : auto.pre.accounts[i].authenticated
      THEN \E i \in AutoIndices :
             /\ auto.pre.accounts[i].authenticated
             /\ \A j \in 1..(i - 1) : ~auto.pre.accounts[j].authenticated
             /\ auto.chosen = auto.pre.accounts[i]
      ELSE auto.chosen = auto.pre.accounts[1]

C14_Witness ==
  /\ AutoSelected /\ AutoParsed
  /\ Len(auto.pre.accounts) = 2
  /\ \A i \in AutoIndices : ~Passes(i)
  /\ ~auto.pre.accounts[1].authenticated
  /\ auto.pre.accounts[2].authenticated
  /\ auto.chosen = auto.pre.accounts[2]

\* the dialogs of handleSwitchToAccount that wait for the user (modal) or
\* report an error
BlockingOrErrorDialogs ==
  {"prompt:Continue", "prompt:SwitchAccount", "prompt:dismissed", "report:NoToken",
   "warning:FailedToSwitch", "error:FailedToSwitchAccount"}

\* C15: a switchTo applied by an auto-activation shows no modal dialog and no
\* error or warning message; stated here for the executions in which no
\* collaborator call fails, where the chosen account may still have no token
\* or no collaborator access to the open repository.
C15_AutoActivateShowsNoDialog ==
  (sw.caller = "auto" /\ ~AnyFailure) =>
    \A i \in 1..Len(sw.log) : sw.log[i] \notin BlockingOrErrorDialogs

\* ------------------------------------------------------------------ import
\* the profile answered for the token of the session of the last command
CmdProfile == cmd.profiles[cmd.session.accessToken]

\* the last command imported a session (automatic import, or "Add Another"
\* of the import command), saved the accounts file, and no call has failed
SessionImported ==
  /\ cmd.op \in {"import", "importAnother"}
  /\ cmd.outcome = "saved"
  /\ ~cmd.faulted
  /\ importable(cmd.session, cmd.profiles)

WithUsername(accts, username) == { i \in 1..Len(accts) : accts[i].username = username }

WithEmail(accts, email) == { i \in 1..Len(accts) : accts[i].email = email }

Least(S) == CHOOSE i \in S : \A j \in S : i <= j

\* no token is stored for a username other than that of the session, so that
\* the stored tokens add no record of their own
OnlySessionToken ==
  \A u \in Usernames : u # CmdProfile.login => cmd.pre.vault[u] = NoToken

\* C16: importing a session whose username already has a record leaves the
\* number of records unchanged, sets the email of that record to the freshly
\* resolved one, and leaves one record with that username.
C16_ImportRefreshesRecordOfUsername ==
  (SessionImported /\ cmd.op = "import" /\ OnlySessionToken
     /\ WithUsername(cmd.pre.accounts, CmdProfile.login) # {}) =>
    /\ Len(accounts) = Len(cmd.pre.accounts)
    /\ \A i \in WithUsername(cmd.pre.accounts, CmdProfile.login) :
         accounts[i].email = primaryEmail(CmdProfile)
    /\ Cardinality(WithUsername(accounts, CmdProfile.login)) = 1

\* the record that username-first matching treats as already present: the
\* first with the session's username, else the first with its email, else none
UsernameFirstIndex ==
  IF WithUsername(cmd.pre.accounts, CmdProfile.login) # {}
    THEN Least(WithUsername(cmd.pre.accounts, CmdProfile.login))
  ELSE IF WithEmail(cmd.pre.accounts, primaryEmail(CmdProfile)) # {}
    THEN Least(WithEmail(cmd.pre.accounts, primaryEmail(CmdProfile)))
  ELSE Len(cmd.pre.accounts) + 1

\* C17: the record import updates for a session is the one matched by username
\* first and by email as a fallback; every other record keeps its fields
\* (the authenticated flag apart, which the stored tokens may set).
C17_ImportMatchesUsernameFirst ==
  SessionImported =>
    /\ UsernameFirstIndex <= Len(accounts)
    /\ accounts[UsernameFirstIndex] = sessionAccount(CmdProfile, cmd.session)
    /\ \A j \in 1..Len(cmd.pre.accounts) :
         j # UsernameFirstIndex =>
           accounts[j] = [cmd.pre.accounts[j] EXCEPT !.authenticated = accounts[j].authenticated]

\* C18: no two records of the Account Store have the same username.
C18_UsernamesUnique ==
  \A i, j \in 1..Len(accounts) :
    (i # j /\ accounts[i].username # "") => accounts[i].username # accounts[j].username

\* C19: an import that ended without a failure, run again with the same
\* session, vault and remote profiles, arrives at the same Account Store.
C19_ImportIdempotent ==
  (cmd.op = "import" /\ cmd.outcome \in {"saved", "nothing"} /\ ~cmd.faulted) =>
    importAccounts(accounts, vault, registry, cmd.session, cmd.profiles) = accounts

\* ------------------------------------------------------------------ vault
NoDuplicates(reg) == \A i, j \in 1..Len(reg) : i # j => reg[i] # reg[j]

InRegistry(reg, username) == \E i \in 1..Len(reg) : reg[i] = username

\* the registry holds each username at most once and exactly the usernames
\* with a stored secret
RegistryMatchesVault(reg, v) ==
  /\ NoDuplicates(reg)
  /\ \A u \in Usernames : InRegistry(reg, u) <=> v[u] # NoToken

\* C20: as long as no vault call has thrown, after any sequence of store and
\* delete operations the registry holds each username at most once and
\* exactly the usernames with a stored secret; store appends the username if
\* it is absent and leaves the registry alone otherwise, delete removes it.
C20_RegistryTracksVault ==
  /\ NoDuplicates(registry)
  /\ ~cmd.faulted =>
       /\ RegistryMatchesVault(registry, vault)
       /\ cmd.op = "store" =>
            /\ vault[cmd.username] = cmd.token
            /\ registry = IF InRegistry(cmd.pre.registry, cmd.username)
                            THEN cmd.pre.registry
                            ELSE Append(cmd.pre.registry, cmd.username)
       /\ cmd.op = "delete" =>
            /\ vault[cmd.username] = NoToken
            /\ ~InRegistry(registry, cmd.username)
            /\ \A u \in Usernames \ {cmd.username} :
                 InRegistry(registry, u) <=> InRegistry(cmd.pre.registry, u)

\* a token stored twice under one username, then deleted
C20_Witness ==
  /\ ops = 3
  /\ ~cmd.faulted
  /\ cmd.op = "delete"
  /\ cmd.pre.registry = <<"b", "a">>
  /\ cmd.username = "b"
  /\ cmd.pre.vault["b"] = "ta"
  /\ registry = <<"a">>

\* ------------------------------------------------------------------ listAll
\* the usernames of reg whose secret resolves in v, in the order of reg
Resolving(reg, v) == SelectSeq(reg, LAMBDA u : v[u] # NoToken)

\* C21: when getAllStoredTokens returns, its result is the (username, secret)
\* pairs of the registry usernames whose secret resolves, in registry order,
\* and the registry holds those usernames and no username whose secret did
\* not resolve.
C21_ListAllReturnsResolvedAndHeals ==
  (cmd.op = "listAll" /\ cmd.outcome = "ok") =>
    /\ Len(cmd.tokens) = Len(Resolving(cmd.pre.registry, cmd.pre.vault))
    /\ \A i \in 1..Len(cmd.tokens) :
         /\ cmd.tokens[i].username = Resolving(cmd.pre.registry, cmd.pre.vault)[i]
         /\ cmd.tokens[i].token = cmd.pre.vault[cmd.tokens[i].username]
    /\ \A u \in Usernames :
         InRegistry(registry, u) <=>
           (InRegistry(cmd.pre.registry, u) /\ cmd.pre.vault[u] # NoToken)
    /\ vault = cmd.pre.vault

\* two registered usernames, the secret of the first deleted behind the
\* registry's back: listAll returns the second and drops the first
C21_Witness ==
  /\ cmd.op = "listAll" /\ cmd.outcome = "ok"
  /\ Len(cmd.pre.registry) = 2
  /\ cmd.pre.vault[cmd.pre.registry[1]] = NoToken
  /\ Len(cmd.tokens) = 1
  /\ registry = <<cmd.pre.registry[2]>>

\* C22: after an account was deleted, the vault holds no secret for the
\* username of a removed record and the registry does not hold that username.
C22_DeleteAccountDeletesToken ==
  (cmd.op = "deleteAccount" /\ cmd.outcome = "deleted") =>
    \A i \in 1..Len(cmd.pre.accounts) :
      ( /\ cmd.pre.accounts[i].username # ""
        /\ \A j \in 1..Len(accounts) : accounts[j] # cmd.pre.accounts[i] )
      => /\ vault[cmd.pre.accounts[i].username] = NoToken
         /\ ~InRegistry(registry, cmd.pre.accounts[i].username)

\* ---------------------------------------------------------- accounts file
\* loadAccounts ran and its read of the file did not fail
Loaded == cmd.op = "load" /\ cmd.outcome # "error:read"

LacksField(account) == account.label = "" \/ account.name = "" \/ account.email = ""

C25_CorruptedFileReadAsEmptyWithBackup ==
  (Loaded /\ cmd.disk.form = "corrupt") =>
    /\ cmd.outcome = "ok"
    /\ cmd.tokens = <<>>
    /\ disk.backup = "corrupt"

\* the lines of l that are an ignore entry written by ensureGitignore
WrittenEntries(l) ==
  { i \in 1..Len(l) : l[i] = "# GitShift personal account configuration" }

\* C26: a save that wrote the accounts file does not fail, whatever happens
\* while the ignore entry is ensured, and the ignore file never holds more
\* than one entry written by save.
C26_IgnoreBestEffortAndIdempotent ==
  /\ Cardinality(WrittenEntries(disk.gitignore)) <= 1
  /\ (cmd.op = "save" /\ cmd.outcome \notin {"error:mkdir", "error:write"}) =>
       cmd.outcome = "ok"

\* ------------------------------------------------------------ email resolution
\* the addresses of p's list that are primary and verified, verified, primary
PrimaryVerified(p) == { i \in 1..Len(p.emails) : p.emails[i].primary /\ p.emails[i].verified }

Verified(p) == { i \in 1..Len(p.emails) : p.emails[i].verified }

Primary(p) == { i \in 1..Len(p.emails) : p.emails[i].primary }

\* the first available of: a primary and verified address, a verified
\* address, a primary address, the first listed address, the profile's email
FirstAvailable(p) ==
  IF PrimaryVerified(p) # {} THEN p.emails[Least(PrimaryVerified(p))].email
  ELSE IF Verified(p) # {} THEN p.emails[Least(Verified(p))].email
  ELSE IF Primary(p) # {} THEN p.emails[Least(Primary(p))].email
  ELSE IF Len(p.emails) > 0 THEN p.emails[1].email
  ELSE p.email

\* record i was created or had a field other than the authenticated flag
\* changed by the last command
Written(i) ==
  \/ i > Len(cmd.pre.accounts)
  \/ [accounts[i] EXCEPT !.authenticated = TRUE]
       # [cmd.pre.accounts[i] EXCEPT !.authenticated = TRUE]

ExchangeFailed ==
  \/ cmd.answer \in {"neterr", "notFound", "error"}
  \/ cmd.answer = "badBody" /\ cmd.op # "checkRepoAccess"

\* C28: when the exchange fails, getGitHubEmails returns the empty list and
\* checkRepoAccess and checkCollaboratorAccess return false, while
\* getGitHubUser and validateGitHubToken raise.
C28_AdvisoryReadsDegrade ==
  ExchangeFailed =>
    /\ cmd.op = "getEmails" => (cmd.outcome = "returned" /\ cmd.tokens = << <<>> >>)
    /\ cmd.op \in {"checkRepoAccess", "checkCollaboratorAccess"} =>
         (cmd.outcome = "returned" /\ cmd.tokens = <<FALSE>>)
    /\ cmd.op \in {"getUser", "validate"} => cmd.outcome = "raised"

\* GET /user/emails answered with a server error
C28_Witness ==
  /\ cmd.op = "getEmails"
  /\ cmd.answer = "error"
  /\ cmd.outcome = "returned"
  /\ cmd.tokens = << <<>> >>

\* ------------------------------------------------ switching twice: claims
\* the position of the mark "again" in the log (0: not there)
againAt == IF \E i \in 1..Len(sw.log) : sw.log[i] = "again"
             THEN CHOOSE i \in 1..Len(sw.log) : sw.log[i] = "again"
             ELSE 0

FirstLog == SubSeq(sw.log, 1, againAt - 1)

SecondLog == SubSeq(sw.log, againAt + 1, Len(sw.log))

SecondDone == cmd.op = "switchAgain" /\ sw.pc = "done"

SameStateAsAfterFirst ==
  /\ localId = cmd.pre.localId
  /\ accounts = cmd.pre.accounts
  /\ cred = cmd.pre.cred

IsAnswer(e) == e \in {"prompt:Continue", "prompt:SwitchAccount", "prompt:dismissed", "noSession"}

SameAnswers == SelectSeq(FirstLog, IsAnswer) = SelectSeq(SecondLog, IsAnswer)

AllTasksDone == Len(tasks) > 0 /\ \A k \in 1..Len(tasks) : tasks[k].pc = "done"

\* C23: no operation of the interleaving deletes an account, so once all
\* operations are complete the record that an add-token operation saved (the
\* record of the token's username) is in the store.
C23_SavedRecordSurvivesInterleaving ==
  AllTasksDone =>
    \A k \in 1..Len(tasks) :
      tasks[k].op = "addToken" =>
        \E i \in 1..Len(accounts) : accounts[i].username = tasks[k].profile.login

\* C30: when two switches for records with different identities have both
\* finished, LocalIdentity is the (name, email) pair of one of the two records.
C30_ConcurrentSwitchesPairIdentity ==
  ( /\ Len(tasks) = 2
    /\ AllTasksDone
    /\ tasks[1].op = "switch" /\ tasks[2].op = "switch"
    /\ IdentityOf(tasks[1].account) # IdentityOf(tasks[2].account) )
  => localId \in {IdentityOf(tasks[1].account), IdentityOf(tasks[2].account)}

\* ------------------------------------------------- background validation: claims
\* the last validation pass went through to its end and the list it loaded
\* was still the stored list when it saved
PassCompleted ==
  /\ cmd.op = "validate"
  /\ cmd.outcome \in {"saved", "unchanged"}
  /\ cmd.loaded = cmd.pre.accounts

Accepted(u) == cmd.pre.vault[u] # NoToken /\ cmd.answers[u] = "ok"

\* C31: when a validation pass has completed with no other writer in between,
\* every record with a username has authenticated = TRUE exactly if a token
\* for the username was in the vault and the API accepted it; the other
\* fields, the records without a username and the number of records are
\* unchanged.
C31_FlagRecomputedByValidation ==
  PassCompleted =>
    /\ Len(accounts) = Len(cmd.pre.accounts)
    /\ \A i \in 1..Len(accounts) :
         IF hasUsername(cmd.pre.accounts[i])
           THEN accounts[i] = [cmd.pre.accounts[i] EXCEPT
                                 !.authenticated = Accepted(cmd.pre.accounts[i].username)]
           ELSE accounts[i] = cmd.pre.accounts[i]

\* one pass has set the flag of a record with an accepted token and cleared
\* the flag of a record whose token the API rejected
C31_Witness ==
  /\ PassCompleted
  /\ cmd.outcome = "saved"
  /\ \E i, j \in 1..Len(accounts) :
       /\ accounts[i].authenticated /\ ~cmd.pre.accounts[i].authenticated
       /\ ~accounts[j].authenticated /\ cmd.pre.accounts[j].authenticated
       /\ cmd.pre.vault[accounts[j].username] # NoToken
       /\ cmd.answers[accounts[j].username] = "error"

\* C36: after a validation pass in which the request for a token failed for a
\* network reason, the token is in the vault and its username in the registry.
C36_NetworkFailureKeepsToken ==
  (cmd.op = "validate" /\ cmd.outcome \in {"saved", "unchanged"}) =>
    \A u \in Usernames :
      ( /\ cmd.answers[u] = "neterr"
        /\ cmd.pre.vault[u] # NoToken
        /\ InRegistry(cmd.pre.registry, u) )
      => vault[u] = cmd.pre.vault[u] /\ InRegistry(registry, u)

\* ------------------------------------------------- automatic import runs: claims
\* the usernames registered with a token before the last run whose profile
\* the host answers with an email
Mergeable ==
  { u \in Usernames :
      /\ InRegistry(cmd.pre.registry, u)
      /\ cmd.pre.vault[u] # NoToken
      /\ host.profiles[cmd.pre.vault[u]] # NoProfile
      /\ primaryEmail(host.profiles[cmd.pre.vault[u]]) # "" }

\* C32: over the runs of the automatic import in one workspace in which no
\* call fails, the "accounts imported" message is shown in at most one run,
\* the flag is set once a run is complete, and after every run the store
\* holds a record for each username that was registered with a token (under
\* that username or under the login its token belongs to).
C32_NoticeOnceMergeEveryRun ==
  (cmd.op = "import" /\ ~cmd.faulted) =>
    /\ host.notices <= 1
    /\ host.hasAutoImported
    /\ \A u \in Mergeable :
         \E i \in 1..Len(accounts) :
           accounts[i].username \in {u, host.profiles[cmd.pre.vault[u]].login}

\* the first run imported a record and showed the message; the second run
\* imported the record of a token stored in between and showed nothing
C32_Witness ==
  /\ cmd.op = "import" /\ ~cmd.faulted /\ cmd.outcome = "saved"
  /\ host.runs = 2
  /\ host.notices = 1
  /\ Len(cmd.pre.accounts) > 0
  /\ Len(accounts) > Len(cmd.pre.accounts)
  /\ cmd.pre.vault["b"] # NoToken
  /\ \E i \in 1..Len(accounts) : accounts[i].username = "b"

\* ------------------------------------------------- token recovery: claims
RecoveryEvents == {"noSession", "vaultStore", "fail:vaultStore"}

Recovered == sw.pc # "idle" /\ InLog("vaultStore")

\* C33: a switch attempts the recovery at most once, and only for a record
\* with an account id whose username had no token in the vault; when the
\* recovery has stored a token, it is the token of the session of that
\* account id, it is in the vault under the username, the username is in the
\* registry, and the switch goes on with that token instead of reporting that
\* no token exists.
C33_RecoveryOneShot ==
  /\ Cardinality({ i \in 1..Len(sw.log) : sw.log[i] \in RecoveryEvents }) <= 1
  /\ (\E e \in RecoveryEvents : InLog(e)) =>
       /\ sw.account.accountId # ""
       /\ sw.pre.vault[sw.account.username] = NoToken
  /\ Recovered =>
       /\ \E s \in Sessions : /\ s # NoSession
                              /\ s.id = sw.account.accountId
                              /\ s.accessToken = vault[sw.account.username]
       /\ InRegistry(registry, sw.account.username)
       /\ sw.accessToken = vault[sw.account.username]
       /\ InLog("tokenResolved")
       /\ ~InLog("report:NoToken")

\* a switch that recovered the token has set the identity of the record
C33_Witness ==
  /\ Recovered
  /\ sw.pc = "done"
  /\ InLog("setGitUser")
  /\ localId = IdentityOf(sw.account)

\* ------------------------------------------------- written records: claims
Complete(account) == account.label # "" /\ account.name # "" /\ account.email # ""

\* C34: every record of the store has a label, a name and an email, whatever
\* operations have written the store.
C34_StoredRecordsComplete ==
  \A i \in 1..Len(accounts) : Complete(accounts[i])

\* ------------------------------------------------- credential store: claims
LinesOf(lines, username) == SelectSeq(lines, LAMBDA l : l.user = username)

LinesOfOthers(lines, username) == SelectSeq(lines, LAMBDA l : l.user # username)

\* C35: after credentials were configured for a username with a token, the
\* credential store holds exactly one line for the username, with that token,
\* and the lines of every other username are the ones it held before.
C35_CredentialStoreKeyedByUsername ==
  (cmd.op = "configure" /\ cmd.outcome = "ok") =>
    /\ LinesOf(cred, cmd.username) = <<[user |-> cmd.username, token |-> cmd.token]>>
    /\ LinesOfOthers(cred, cmd.username) = LinesOfOthers(cmd.pre.cred, cmd.username)

\* ------------------------------------------------- add-token: claims
\* C37: when add-token has ended with the missing-email error, the vault, the
\* registry and the store are the ones from before the command.
C37_AddTokenMissingEmailChangesNothing ==
  (cmd.op = "addToken" /\ cmd.outcome = "error:email") =>
    /\ vault = cmd.pre.vault
    /\ registry = cmd.pre.registry
    /\ accounts = cmd.pre.accounts

\* C38: registry updates are not lost under interleaving: when two store
\* operations for different usernames, or a store and a self-heal of listing
\* all tokens, have interleaved at their suspension points and all have
\* finished, every username whose secret is stored is in the registry.
C38_RegistryUpdatesNotLost ==
  AllTasksDone =>
    \A u \in Usernames : vault[u] # NoToken => InRegistry(registry, u)

====
